---- MODULE Spec2Model ----
(***************************************************************************)
(* Model of the covenant engine's two-party POL holder                     *)
(* (contracts/two-party-pol-holder/src/contract.rs) together with the      *)
(* split engine it uses (packages/covenant-utils/src/split.rs).            *)
(*                                                                         *)
(* Every execute entry point is an operator from the persisted storage,    *)
(* the block, the holder's bank balance and the message info to a          *)
(* Response: an error kind, the storage as the handler leaves it and the   *)
(* messages it emits.  An entry point is one atomic transaction: on an     *)
(* error (the handler's own, or the bank refusing one of its sends)        *)
(* nothing is persisted and no message is emitted.                         *)
(*                                                                         *)
(* Decimals are modelled as integer multiples of 1/ONE.                    *)
(***************************************************************************)
EXTENDS Integers, Sequences, FiniteSets, TLC

\* ------------------------------------------------------------- bounds
\* Decimal::one() counted in model units: a share or allocation s stands for s/ONE
ONE == 4
\* last block height the chain reaches
MaxHeight == 3
\* units of its contribution denom party A's wallet holds at the start
MaxBal == 2
\* nanoseconds that pass from one block to the next
BlockNanos == 2
\* width in bits of the unsigned integers amounts are held in
UintBits == 3
\* most gas one tick handler burns
MaxGas == 2

\* ---------------------------------------------------------- addresses
PARTY_A_ADDR == "party_a"
PARTY_B_ADDR == "party_b"
PARTY_A_ROUTER == "router_a"
PARTY_B_ROUTER == "router_b"
CLOCK_ADDR == "clock"
NEXT_CONTRACT == "pooler"
COMMITTEE_ADDR == "committee"
OTHER_ADDR == "other"
NO_ADDR == "none"

DENOM_A == "denom_a"
DENOM_B == "denom_b"
\* a denom no explicit split is configured for
DENOM_X == "denom_x"
Denoms == {DENOM_A, DENOM_B, DENOM_X}

\* ------------------------------------------------------------- values
Coin(d, n) == [denom |-> d, amount |-> n]

BankSend(to, coins) == [type |-> "bank", to |-> to, coins |-> coins]

\* percentage: [some |-> FALSE, v |-> 0] is None (100 %), [some |-> TRUE, v |-> x] is Some(x/ONE)
WithdrawMsg(to, pct) == [type |-> "withdraw", to |-> to, percentage |-> pct]

DequeueMsg(to) == [type |-> "dequeue", to |-> to]

PctNone == [some |-> FALSE, v |-> 0]

PctSome(x) == [some |-> TRUE, v |-> x]

\* generate_withdraw_msg(lper, withdraw_percentage)
generate_withdraw_msg(lper, pct) == WithdrawMsg(lper, pct)

\* ExpiryConfig::{None, Block(h), Time(t)}
ExpiryNone == [kind |-> "None", at |-> 0]

ExpiryBlock(h) == [kind |-> "Block", at |-> h]

ExpiryTime(t) == [kind |-> "Time", at |-> t]

\* ExpiryConfig::is_expired(&block): the expiry fires at the exact configured
\* height or time
is_expired(cfg, blk) ==
    CASE cfg.kind = "None" -> FALSE
      [] cfg.kind = "Block" -> cfg.at <= blk.height
      [] cfg.kind = "Time" -> cfg.at <= blk.time

\* WithdrawState::{Processing{claimer_addr}, ProcessingRagequit{claimer_addr, terms}, Emergency{}};
\* kind "None" stands for the WITHDRAW_STATE item being absent from storage
NoWithdraw == [kind |-> "None", claimer_addr |-> NO_ADDR, penalty |-> 0]

Processing(addr) == [kind |-> "Processing", claimer_addr |-> addr, penalty |-> 0]

ProcessingRagequit(addr, p) == [kind |-> "ProcessingRagequit", claimer_addr |-> addr, penalty |-> p]

Emergency == [kind |-> "Emergency", claimer_addr |-> NO_ADDR, penalty |-> 0]

\* TwoPartyPolCovenantParty
Party(host, router, alloc, denom, amount) ==
    [host_addr |-> host, router |-> router, allocation |-> alloc,
     contribution |-> Coin(denom, amount)]

NoParty == Party(NO_ADDR, NO_ADDR, 0, "", 0)

\* RagequitConfig::{Disabled, Enabled(RagequitTerms{penalty, state})};
\* state: Option<RagequitState{coins, rq_party}>
NoRagequitState == [some |-> FALSE, rq_party |-> NoParty, coins |-> <<>>]

RagequitDisabled == [enabled |-> FALSE, penalty |-> 0, state |-> NoRagequitState]

RagequitEnabled(p) == [enabled |-> TRUE, penalty |-> p, state |-> NoRagequitState]

\* SplitConfig.receivers: a BTreeMap, iterated in key order; modelled as the
\* sequence of its entries in that order
Split(share_a, share_b) ==
    << [addr |-> PARTY_A_ROUTER, share |-> share_a],
       [addr |-> PARTY_B_ROUTER, share |-> share_b] >>

\* Uint128::MAX, at the width of the model's integers
Uint128MAX == 2 ^ UintBits - 1

\* ------------------------------------------------------------ helpers
RECURSIVE SumSeq(_)
SumSeq(s) == IF s = <<>> THEN 0 ELSE Head(s) + SumSeq(Tail(s))

RECURSIVE Concat(_)
Concat(ss) == IF ss = <<>> THEN <<>> ELSE Head(ss) \o Concat(Tail(ss))

\* amount of denom d carried by the coins of one message's coin list
RECURSIVE CoinsAmount(_, _)
CoinsAmount(coins, d) ==
    IF coins = <<>> THEN 0
    ELSE (IF Head(coins).denom = d THEN Head(coins).amount ELSE 0)
         + CoinsAmount(Tail(coins), d)

\* amount of denom d sent by the bank messages of a response
RECURSIVE BankOut(_, _)
BankOut(msgs, d) ==
    IF msgs = <<>> THEN 0
    ELSE (IF Head(msgs).type = "bank" THEN CoinsAmount(Head(msgs).coins, d) ELSE 0)
         + BankOut(Tail(msgs), d)

\* amount of denom d the bank messages of a response send to one address
RECURSIVE BankOutTo(_, _, _)
BankOutTo(msgs, to, d) ==
    IF msgs = <<>> THEN 0
    ELSE (IF Head(msgs).type = "bank" /\ Head(msgs).to = to
          THEN CoinsAmount(Head(msgs).coins, d) ELSE 0)
         + BankOutTo(Tail(msgs), to, d)

\* the percentages of the withdraw requests among the messages of a response
RECURSIVE WithdrawRequests(_)
WithdrawRequests(msgs) ==
    IF msgs = <<>> THEN <<>>
    ELSE (IF Head(msgs).type = "withdraw" THEN <<Head(msgs).percentage>> ELSE <<>>)
         \o WithdrawRequests(Tail(msgs))

\* Response of an entry point
Ok(st, msgs) == [err |-> "Ok", st |-> st, msgs |-> msgs]

Err(e, st) == [err |-> e, st |-> st, msgs |-> <<>>]

\* ------------------------------------------------------- split engine
\* a multiplication that wraps around instead of failing on overflow
checked_multiply_ratio_wrapping(amount, n, d) ==
    IF d = 0 THEN [ok |-> FALSE, v |-> 0]
    ELSE [ok |-> TRUE, v |-> ((amount * n) \div d) % (Uint128MAX + 1)]

\* Uint128::checked_multiply_ratio(numerator, denominator): floor(amount * n / d)
\* fails on a zero denominator and when the result does not fit the integer
checked_multiply_ratio(amount, n, d) ==
    IF d = 0 \/ (amount * n) \div d > Uint128MAX
    THEN [ok |-> FALSE, v |-> 0]
    ELSE [ok |-> TRUE, v |-> (amount * n) \div d]

\* EffectiveShare paying every receiver its configured share, filter or not
EffectiveShare_ignores_filter(entry, filter_addr) == entry.share

\* the share a receiver is paid with in get_transfer_messages: with a filter,
\* one for the filtered receiver and zero for every other
EffectiveShare(entry, filter_addr) ==
    IF filter_addr # NO_ADDR
    THEN (IF filter_addr = entry.addr THEN ONE ELSE 0)
    ELSE entry.share

\* SplitConfig::get_transfer_messages(amount, denom, filter_addr);
\* filter_addr = NO_ADDR stands for None
RECURSIVE TransferMessages(_, _, _, _)
TransferMessages(receivers, amount, denom, filter_addr) ==
    IF receivers = <<>> THEN [ok |-> TRUE, msgs |-> <<>>]
    ELSE LET share == EffectiveShare(Head(receivers), filter_addr)
             rest == TransferMessages(Tail(receivers), amount, denom, filter_addr)
             ent == checked_multiply_ratio(amount, share, ONE)
         IN  IF share = 0 THEN rest
             ELSE IF ~ent.ok \/ ~rest.ok THEN [ok |-> FALSE, msgs |-> <<>>]
             ELSE [ok |-> TRUE,
                   msgs |-> <<BankSend(Head(receivers).addr, <<Coin(denom, ent.v)>>)>> \o rest.msgs]

get_transfer_messages(split, amount, denom, filter_addr) ==
    TransferMessages(split, amount, denom, filter_addr)

\* SplitConfig::validate_shares
RECURSIVE TotalShares(_)
TotalShares(receivers) ==
    IF receivers = <<>> THEN 0 ELSE Head(receivers).share + TotalShares(Tail(receivers))

validate_shares(split) == TotalShares(split) = ONE

\* DenomSplits: the split one coin is distributed with, explicit first, then fallback
RECURSIVE DistributionMessages(_, _, _)
DistributionMessages(denom_splits, coins, filter_addr) ==
    IF coins = <<>> THEN <<>>
    ELSE LET c == Head(coins)
             res == IF c.denom \in DOMAIN denom_splits.explicit_splits
                    THEN get_transfer_messages(denom_splits.explicit_splits[c.denom],
                                               c.amount, c.denom, filter_addr)
                    ELSE IF denom_splits.fallback_split.some
                    THEN get_transfer_messages(denom_splits.fallback_split.split,
                                               c.amount, c.denom, filter_addr)
                    ELSE [ok |-> FALSE, msgs |-> <<>>]
         IN  (IF res.ok THEN res.msgs ELSE <<>>)
             \o DistributionMessages(denom_splits, Tail(coins), filter_addr)

\* DenomSplits::get_single_receiver_distribution_messages(funds, addr)
get_single_receiver_distribution_messages(denom_splits, funds, addr) ==
    DistributionMessages(denom_splits, funds, addr)

\* DenomSplits::get_shared_distribution_messages(funds)
get_shared_distribution_messages(denom_splits, funds) ==
    DistributionMessages(denom_splits, funds, NO_ADDR)

\* the penalty algebra with the parties swapped: the ragequitting party gains
PenalizedReceivers_swapped(receivers, penalty, rq_router, cp_router) ==
    [i \in 1..Len(receivers) |->
        [addr |-> receivers[i].addr,
         share |-> IF receivers[i].addr = rq_router THEN receivers[i].share + penalty
                   ELSE IF receivers[i].addr = cp_router THEN receivers[i].share - penalty
                   ELSE receivers[i].share]]

\* ragequit penalty algebra on one split: the ragequitting party's router loses
\* the penalty, the counterparty's router gains it; fails when a share would
\* leave [0, 1] or the result does not sum to one
RECURSIVE PenalizedReceivers(_, _, _, _)
PenalizedReceivers(receivers, penalty, rq_router, cp_router) ==
    IF receivers = <<>> THEN <<>>
    ELSE LET e == Head(receivers)
             s == IF e.addr = rq_router THEN e.share - penalty
                  ELSE IF e.addr = cp_router THEN e.share + penalty
                  ELSE e.share
         IN  <<[addr |-> e.addr, share |-> s]>>
             \o PenalizedReceivers(Tail(receivers), penalty, rq_router, cp_router)

apply_penalty_to_split(split, penalty, rq_party, counterparty) ==
    LET new == PenalizedReceivers(split, penalty, rq_party.router, counterparty.router)
    IN  [ok |-> (\A i \in 1..Len(new) : new[i].share >= 0) /\ validate_shares(new),
         split |-> new]

\* DenomSplits::apply_penalty(penalty, rq_party, counterparty)
apply_penalty(denom_splits, penalty, rq_party, counterparty) ==
    LET ex == [d \in DOMAIN denom_splits.explicit_splits |->
                 apply_penalty_to_split(denom_splits.explicit_splits[d], penalty,
                                        rq_party, counterparty)]
        fb == IF denom_splits.fallback_split.some
              THEN apply_penalty_to_split(denom_splits.fallback_split.split, penalty,
                                          rq_party, counterparty)
              ELSE [ok |-> TRUE, split |-> denom_splits.fallback_split.split]
    IN  [ok |-> (\A d \in DOMAIN ex : ex[d].ok) /\ fb.ok,
         denom_splits |-> [explicit_splits |-> [d \in DOMAIN ex |-> ex[d].split],
                           fallback_split |-> [some |-> denom_splits.fallback_split.some,
                                               split |-> fb.split]]]

\* ------------------------------------------------------------- holder
\* ContractState::validate_claim_state: claims are served in Expired and Ragequit only
validate_claim_state(contract_state) == contract_state \in {"Expired", "Ragequit"}

\* ContractState::complete_and_dequeue(deps, clock_addr): persists Complete and
\* returns the clock's Dequeue message
complete_and_dequeue(st, clock_addr) ==
    [st |-> [st EXCEPT !.contract_state = "Complete"], msg |-> DequeueMsg(clock_addr)]

\* TwoPartyPolCovenantConfig::authorize_sender(sender): (party, counterparty)
authorize_sender(covenant_config, sender) ==
    IF covenant_config.party_a.host_addr = sender
    THEN [ok |-> TRUE, party |-> covenant_config.party_a, counterparty |-> covenant_config.party_b]
    ELSE IF covenant_config.party_b.host_addr = sender
    THEN [ok |-> TRUE, party |-> covenant_config.party_b, counterparty |-> covenant_config.party_a]
    ELSE [ok |-> FALSE, party |-> NoParty, counterparty |-> NoParty]

\* TwoPartyPolCovenantConfig::update_parties(p1, p2)
update_parties(covenant_config, p1, p2) ==
    IF covenant_config.party_a.host_addr = p1.host_addr
    THEN [covenant_config EXCEPT !.party_a = p1, !.party_b = p2]
    ELSE [covenant_config EXCEPT !.party_a = p2, !.party_b = p1]

\* WITHDRAW_STATE.load(deps.storage).is_ok()
withdraw_started(st) == st.withdraw_state.kind # "None"

\* try_claim without its call of validate_claim_state
try_claim_any_state(st, sender) ==
    IF withdraw_started(st) THEN Err("WithdrawAlreadyStarted", st)
    ELSE LET auth == authorize_sender(st.covenant_config, sender)
             claim_party == auth.party
             counterparty == auth.counterparty
         IN
         IF ~auth.ok THEN Err("Unauthorized", st)
         ELSE IF claim_party.allocation = 0 /\ counterparty.allocation = 0
         THEN LET c == complete_and_dequeue(st, st.clock_address)
              IN  Ok(c.st, <<c.msg>>)
         ELSE LET withdraw_percentage ==
                      IF st.covenant_config.covenant_type = "Share"
                      THEN PctSome(claim_party.allocation)
                      ELSE PctNone
              IN  Ok([st EXCEPT !.withdraw_state = Processing(claim_party.host_addr)],
                     <<generate_withdraw_msg(st.liquid_pooler_address, withdraw_percentage)>>)

\* try_claim(deps, info)
try_claim(st, sender) ==
    IF withdraw_started(st) THEN Err("WithdrawAlreadyStarted", st)
    ELSE LET auth == authorize_sender(st.covenant_config, sender)
             claim_party == auth.party
             counterparty == auth.counterparty
         IN
         IF ~auth.ok THEN Err("Unauthorized", st)
         ELSE IF claim_party.allocation = 0 /\ counterparty.allocation = 0
         THEN LET c == complete_and_dequeue(st, st.clock_address)
              IN  Ok(c.st, <<c.msg>>)
         ELSE IF ~validate_claim_state(st.contract_state) THEN Err("ClaimError", st)
         ELSE LET withdraw_percentage ==
                      IF st.covenant_config.covenant_type = "Share"
                      THEN PctSome(claim_party.allocation)
                      ELSE PctNone
              IN  Ok([st EXCEPT !.withdraw_state = Processing(claim_party.host_addr)],
                     <<generate_withdraw_msg(st.liquid_pooler_address, withdraw_percentage)>>)

\* try_emergency_withdraw without its check of WITHDRAW_STATE
try_emergency_withdraw_unguarded(st, sender) ==
    IF st.emergency_committee_addr = NO_ADDR THEN Err("NotFound", st)
    ELSE IF sender # st.emergency_committee_addr THEN Err("Unauthorized", st)
    ELSE Ok([st EXCEPT !.withdraw_state = Emergency],
            <<generate_withdraw_msg(st.liquid_pooler_address, PctNone)>>)

\* try_emergency_withdraw(deps, info)
try_emergency_withdraw(st, sender) ==
    IF withdraw_started(st) THEN Err("WithdrawAlreadyStarted", st)
    ELSE IF st.emergency_committee_addr = NO_ADDR THEN Err("NotFound", st)
    ELSE IF sender # st.emergency_committee_addr THEN Err("Unauthorized", st)
    ELSE Ok([st EXCEPT !.withdraw_state = Emergency],
            <<generate_withdraw_msg(st.liquid_pooler_address, PctNone)>>)

\* try_claim_share_based leaving the counterparty's allocation as it was
try_claim_share_based_keeps_allocation(st, claim_party, counterparty, funds, covenant_config, denom_splits) ==
    LET messages == get_single_receiver_distribution_messages(denom_splits, funds, claim_party.router)
        claimer == [claim_party EXCEPT !.allocation = 0]
        keep_going == counterparty.allocation # 0
        c == complete_and_dequeue(st, st.clock_address)
        st1 == IF keep_going THEN st ELSE c.st
        msgs1 == IF keep_going THEN messages ELSE Append(messages, c.msg)
    IN  Ok([st1 EXCEPT !.covenant_config = update_parties(covenant_config, claimer, counterparty)], msgs1)

\* try_claim_share_based(deps, claim_party, counterparty, funds, covenant_config, denom_splits)
try_claim_share_based(st, claim_party, counterparty, funds, covenant_config, denom_splits) ==
    LET messages == get_single_receiver_distribution_messages(denom_splits, funds, claim_party.router)
        claimer == [claim_party EXCEPT !.allocation = 0]
        keep_going == counterparty.allocation # 0
        other == IF keep_going THEN [counterparty EXCEPT !.allocation = ONE] ELSE counterparty
        c == complete_and_dequeue(st, st.clock_address)
        st1 == IF keep_going THEN st ELSE c.st
        msgs1 == IF keep_going THEN messages ELSE Append(messages, c.msg)
    IN  Ok([st1 EXCEPT !.covenant_config = update_parties(covenant_config, claimer, other)], msgs1)

\* try_claim_side_based leaving the counterparty's allocation as it was
try_claim_side_based_keeps_allocation(st, claim_party, counterparty, funds, covenant_config, denom_splits) ==
    LET messages == get_shared_distribution_messages(denom_splits, funds)
        claimer == [claim_party EXCEPT !.allocation = 0]
        st1 == [st EXCEPT !.covenant_config = update_parties(covenant_config, claimer, counterparty)]
        c == complete_and_dequeue(st1, st1.clock_address)
    IN  Ok(c.st, Append(messages, c.msg))

\* try_claim_side_based(deps, claim_party, counterparty, funds, covenant_config, denom_splits)
try_claim_side_based(st, claim_party, counterparty, funds, covenant_config, denom_splits) ==
    LET messages == get_shared_distribution_messages(denom_splits, funds)
        claimer == [claim_party EXCEPT !.allocation = 0]
        other == [counterparty EXCEPT !.allocation = 0]
        st1 == [st EXCEPT !.covenant_config = update_parties(covenant_config, claimer, other)]
        c == complete_and_dequeue(st1, st1.clock_address)
    IN  Ok(c.st, Append(messages, c.msg))

\* apply_rq_state_side(deps, rq_party, coins)
apply_rq_state_side(st, rq_party, coins) ==
    IF st.ragequit_config.enabled
    THEN [st EXCEPT !.ragequit_config.state = [some |-> TRUE, rq_party |-> rq_party, coins |-> coins]]
    ELSE st

\* apply_rq_state_share recording the ragequit without saving the Ragequit state
apply_rq_state_share_keeps_state(st, rq_party, coins) ==
    IF st.ragequit_config.enabled
    THEN [st EXCEPT !.ragequit_config.state =
                        [some |-> TRUE, rq_party |-> rq_party, coins |-> coins]]
    ELSE st

\* apply_rq_state_share(deps, rq_party, coins)
apply_rq_state_share(st, rq_party, coins) ==
    LET st1 == IF st.ragequit_config.enabled
               THEN [st EXCEPT !.ragequit_config.state =
                                   [some |-> TRUE, rq_party |-> rq_party, coins |-> coins]]
               ELSE st
    IN  [st1 EXCEPT !.contract_state = "Ragequit"]

\* the storage try_distribute hands on once it has matched a Processing or
\* ProcessingRagequit withdraw state: WITHDRAW_STATE.remove(deps.storage)
remove_withdraw_state(st) == [st EXCEPT !.withdraw_state = NoWithdraw]

\* the tail of try_distribute saving the splits it distributes with
distribute_claim_saves_splits(st, claim_party, counterparty, denom_splits, is_rq, funds) ==
    LET st1 == [remove_withdraw_state(st) EXCEPT !.denom_splits = denom_splits]
    IN  IF st.covenant_config.covenant_type = "Share"
        THEN try_claim_share_based(
                 IF is_rq THEN apply_rq_state_share(st1, claim_party, funds) ELSE st1,
                 claim_party, counterparty, funds, st.covenant_config, denom_splits)
        ELSE try_claim_side_based(
                 IF is_rq THEN apply_rq_state_side(st1, claim_party, funds) ELSE st1,
                 claim_party, counterparty, funds, st.covenant_config, denom_splits)

\* the tail of try_distribute for Processing and ProcessingRagequit
distribute_claim(st, claim_party, counterparty, denom_splits, is_rq, funds) ==
    LET st1 == remove_withdraw_state(st)
    IN  IF st.covenant_config.covenant_type = "Share"
        THEN try_claim_share_based(
                 IF is_rq THEN apply_rq_state_share(st1, claim_party, funds) ELSE st1,
                 claim_party, counterparty, funds, st.covenant_config, denom_splits)
        ELSE try_claim_side_based(
                 IF is_rq THEN apply_rq_state_side(st1, claim_party, funds) ELSE st1,
                 claim_party, counterparty, funds, st.covenant_config, denom_splits)

\* the Emergency arm distributing to party A alone, as a Share-mode claim would
distribute_emergency_share_based(st, funds) ==
    try_claim_share_based(st, st.covenant_config.party_a, st.covenant_config.party_b,
                          funds, st.covenant_config, st.denom_splits)

\* the Emergency arm of try_distribute: returns from inside the match, before
\* WITHDRAW_STATE.remove is reached
distribute_emergency(st, funds) ==
    try_claim_side_based(st, st.covenant_config.party_a, st.covenant_config.party_b,
                         funds, st.covenant_config, st.denom_splits)

\* try_distribute(deps, info)
try_distribute(st, sender, funds) ==
    IF sender # st.liquid_pooler_address THEN Err("Unauthorized", st)
    ELSE IF ~withdraw_started(st) THEN Err("WithdrawStateNotStarted", st)
    ELSE LET ws == st.withdraw_state
             auth == authorize_sender(st.covenant_config, ws.claimer_addr)
         IN
         CASE ws.kind = "Processing" ->
                IF ~auth.ok THEN Err("Unauthorized", st)
                ELSE distribute_claim(st, auth.party, auth.counterparty, st.denom_splits, FALSE, funds)
           [] ws.kind = "ProcessingRagequit" ->
                IF ~auth.ok THEN Err("Unauthorized", st)
                ELSE LET pen == apply_penalty(st.denom_splits, ws.penalty, auth.party, auth.counterparty)
                     IN  IF ~pen.ok THEN Err("SplitMisconfig", st)
                         ELSE distribute_claim(st, auth.party, auth.counterparty,
                                               pen.denom_splits, TRUE, funds)
           [] ws.kind = "Emergency" -> distribute_emergency(st, funds)

\* try_withdraw_failed leaving WITHDRAW_STATE in place
try_withdraw_failed_keeps_withdraw_state(st, sender) ==
    IF sender # st.liquid_pooler_address THEN Err("Unauthorized", st)
    ELSE Ok(st, <<>>)

\* try_withdraw_failed(deps, info)
try_withdraw_failed(st, sender) ==
    IF sender # st.liquid_pooler_address THEN Err("Unauthorized", st)
    ELSE Ok([st EXCEPT !.withdraw_state = NoWithdraw], <<>>)

\* try_refund with the two routers exchanged
try_refund_swapped_routers(st, bal) ==
    LET config == st.covenant_config
        party_a_bal == Coin(config.party_a.contribution.denom, bal[config.party_a.contribution.denom])
        party_b_bal == Coin(config.party_b.contribution.denom, bal[config.party_b.contribution.denom])
        refund_messages ==
            CASE party_a_bal.amount = 0 /\ party_b_bal.amount = 0 -> <<>>
              [] party_a_bal.amount = 0 /\ party_b_bal.amount # 0 ->
                    <<BankSend(config.party_a.router, <<party_b_bal>>)>>
              [] party_a_bal.amount # 0 /\ party_b_bal.amount = 0 ->
                    <<BankSend(config.party_b.router, <<party_a_bal>>)>>
              [] party_a_bal.amount # 0 /\ party_b_bal.amount # 0 ->
                    <<BankSend(config.party_b.router, <<party_a_bal>>),
                      BankSend(config.party_a.router, <<party_b_bal>>)>>
    IN  Ok(st, refund_messages)

\* try_refund(deps, env)
try_refund(st, bal) ==
    LET config == st.covenant_config
        party_a_bal == Coin(config.party_a.contribution.denom, bal[config.party_a.contribution.denom])
        party_b_bal == Coin(config.party_b.contribution.denom, bal[config.party_b.contribution.denom])
        refund_messages ==
            CASE party_a_bal.amount = 0 /\ party_b_bal.amount = 0 -> <<>>
              [] party_a_bal.amount = 0 /\ party_b_bal.amount # 0 ->
                    <<BankSend(config.party_b.router, <<party_b_bal>>)>>
              [] party_a_bal.amount # 0 /\ party_b_bal.amount = 0 ->
                    <<BankSend(config.party_a.router, <<party_a_bal>>)>>
              [] party_a_bal.amount # 0 /\ party_b_bal.amount # 0 ->
                    <<BankSend(config.party_a.router, <<party_a_bal>>),
                      BankSend(config.party_b.router, <<party_b_bal>>)>>
    IN  Ok(st, refund_messages)

\* try_deposit rejecting only when neither party has deposited enough
try_deposit_either_party(st, blk, bal) ==
    IF is_expired(st.deposit_deadline, blk)
    THEN Ok([st EXCEPT !.contract_state = "Complete"], <<>>)
    ELSE LET config == st.covenant_config
             party_a_bal == Coin(config.party_a.contribution.denom, bal[config.party_a.contribution.denom])
             party_b_bal == Coin(config.party_b.contribution.denom, bal[config.party_b.contribution.denom])
             party_a_fulfilled == config.party_a.contribution.amount <= party_a_bal.amount
             party_b_fulfilled == config.party_b.contribution.amount <= party_b_bal.amount
         IN  IF ~party_a_fulfilled /\ ~party_b_fulfilled
             THEN Err("InsufficientDeposits", st)
             ELSE Ok([st EXCEPT !.contract_state = "Active"],
                     <<BankSend(st.liquid_pooler_address, <<party_a_bal, party_b_bal>>)>>)

\* try_deposit looking at the deposit deadline only after the balances
try_deposit_deadline_last(st, blk, bal) ==
    LET config == st.covenant_config
        party_a_bal == Coin(config.party_a.contribution.denom, bal[config.party_a.contribution.denom])
        party_b_bal == Coin(config.party_b.contribution.denom, bal[config.party_b.contribution.denom])
        party_a_fulfilled == config.party_a.contribution.amount <= party_a_bal.amount
        party_b_fulfilled == config.party_b.contribution.amount <= party_b_bal.amount
    IN  IF party_a_fulfilled /\ party_b_fulfilled
        THEN Ok([st EXCEPT !.contract_state = "Active"],
                <<BankSend(st.liquid_pooler_address, <<party_a_bal, party_b_bal>>)>>)
        ELSE IF is_expired(st.deposit_deadline, blk)
        THEN Ok([st EXCEPT !.contract_state = "Complete"], <<>>)
        ELSE Err("InsufficientDeposits", st)

\* try_deposit(deps, env, info)
\* try_deposit leaving the clock's queue when the deposit deadline has passed
try_deposit_dequeues_at_deadline(st, blk, bal) ==
    IF is_expired(st.deposit_deadline, blk)
    THEN Ok(complete_and_dequeue(st, st.clock_address).st, <<complete_and_dequeue(st, st.clock_address).msg>>)
    ELSE LET config == st.covenant_config
             party_a_bal == Coin(config.party_a.contribution.denom, bal[config.party_a.contribution.denom])
             party_b_bal == Coin(config.party_b.contribution.denom, bal[config.party_b.contribution.denom])
             party_a_fulfilled == config.party_a.contribution.amount <= party_a_bal.amount
             party_b_fulfilled == config.party_b.contribution.amount <= party_b_bal.amount
         IN  IF ~party_a_fulfilled \/ ~party_b_fulfilled
             THEN Err("InsufficientDeposits", st)
             ELSE Ok([st EXCEPT !.contract_state = "Active"],
                     <<BankSend(st.liquid_pooler_address, <<party_a_bal, party_b_bal>>)>>)

try_deposit(st, blk, bal) ==
    IF is_expired(st.deposit_deadline, blk)
    THEN Ok([st EXCEPT !.contract_state = "Complete"], <<>>)
    ELSE LET config == st.covenant_config
             party_a_bal == Coin(config.party_a.contribution.denom, bal[config.party_a.contribution.denom])
             party_b_bal == Coin(config.party_b.contribution.denom, bal[config.party_b.contribution.denom])
             party_a_fulfilled == config.party_a.contribution.amount <= party_a_bal.amount
             party_b_fulfilled == config.party_b.contribution.amount <= party_b_bal.amount
         IN  IF ~party_a_fulfilled \/ ~party_b_fulfilled
             THEN Err("InsufficientDeposits", st)
             ELSE Ok([st EXCEPT !.contract_state = "Active"],
                     <<BankSend(st.liquid_pooler_address, <<party_a_bal, party_b_bal>>)>>)

\* check_expiration with the test of the lockup inverted
check_expiration_inverted(st, blk) ==
    IF is_expired(st.lockup_config, blk) THEN Ok(st, <<>>)
    ELSE Ok([st EXCEPT !.contract_state = "Expired"], <<>>)

\* check_expiration(deps, env)
check_expiration(st, blk) ==
    IF ~is_expired(st.lockup_config, blk) THEN Ok(st, <<>>)
    ELSE Ok([st EXCEPT !.contract_state = "Expired"], <<>>)

\* verify_clock(&info.sender, &clock_addr)
verify_clock(sender, clock_addr) == sender = clock_addr

\* try_tick without verify_clock
try_tick_any_sender(st, blk, bal, sender) ==
    CASE st.contract_state = "Instantiated" -> try_deposit(st, blk, bal)
      [] st.contract_state = "Active" -> check_expiration(st, blk)
      [] st.contract_state \in {"Expired", "Ragequit"} -> Ok(st, <<>>)
      [] st.contract_state = "Complete" -> try_refund(st, bal)

\* try_tick checking the lockup in Complete as it does in Active
try_tick_complete_expires(st, blk, bal, sender) ==
    IF ~verify_clock(sender, st.clock_address) THEN Err("NotClock", st)
    ELSE CASE st.contract_state = "Instantiated" -> try_deposit(st, blk, bal)
           [] st.contract_state \in {"Active", "Complete"} -> check_expiration(st, blk)
           [] st.contract_state \in {"Expired", "Ragequit"} -> Ok(st, <<>>)

\* try_tick(deps, env, info)
try_tick(st, blk, bal, sender) ==
    IF ~verify_clock(sender, st.clock_address) THEN Err("NotClock", st)
    ELSE CASE st.contract_state = "Instantiated" -> try_deposit(st, blk, bal)
           [] st.contract_state = "Active" -> check_expiration(st, blk)
           [] st.contract_state \in {"Expired", "Ragequit"} -> Ok(st, <<>>)
           [] st.contract_state = "Complete" -> try_refund(st, bal)

\* try_ragequit requesting the party's whole allocation, the penalty not deducted
try_ragequit_whole_allocation(st, blk, sender) ==
    IF ~st.ragequit_config.enabled THEN Err("RagequitDisabled", st)
    ELSE IF st.contract_state # "Active" THEN Err("NotActive", st)
    ELSE IF withdraw_started(st) THEN Err("WithdrawAlreadyStarted", st)
    ELSE IF is_expired(st.lockup_config, blk) THEN Err("Expired", st)
    ELSE LET auth == authorize_sender(st.covenant_config, sender)
             rq_party == auth.party
             rq_terms == st.ragequit_config
         IN
         IF ~auth.ok THEN Err("Unauthorized", st)
         ELSE LET withdraw_percentage ==
                      IF st.covenant_config.covenant_type = "Share"
                      THEN PctSome(rq_party.allocation)
                      ELSE PctNone
              IN  Ok([st EXCEPT !.withdraw_state =
                                    ProcessingRagequit(rq_party.host_addr, rq_terms.penalty)],
                     <<generate_withdraw_msg(st.liquid_pooler_address, withdraw_percentage)>>)

\* try_ragequit without its check of the lockup
try_ragequit_ignores_lockup(st, blk, sender) ==
    IF ~st.ragequit_config.enabled THEN Err("RagequitDisabled", st)
    ELSE IF st.contract_state # "Active" THEN Err("NotActive", st)
    ELSE IF withdraw_started(st) THEN Err("WithdrawAlreadyStarted", st)
    ELSE LET auth == authorize_sender(st.covenant_config, sender)
             rq_party == auth.party
             rq_terms == st.ragequit_config
         IN
         IF ~auth.ok THEN Err("Unauthorized", st)
         ELSE IF st.covenant_config.covenant_type = "Share"
                 /\ rq_party.allocation < rq_terms.penalty
         THEN Err("Overflow", st)
         ELSE LET withdraw_percentage ==
                      IF st.covenant_config.covenant_type = "Share"
                      THEN PctSome(rq_party.allocation - rq_terms.penalty)
                      ELSE PctNone
              IN  Ok([st EXCEPT !.withdraw_state =
                                    ProcessingRagequit(rq_party.host_addr, rq_terms.penalty)],
                     <<generate_withdraw_msg(st.liquid_pooler_address, withdraw_percentage)>>)

\* try_ragequit(deps, env, info)
try_ragequit(st, blk, sender) ==
    IF ~st.ragequit_config.enabled THEN Err("RagequitDisabled", st)
    ELSE IF st.contract_state # "Active" THEN Err("NotActive", st)
    ELSE IF withdraw_started(st) THEN Err("WithdrawAlreadyStarted", st)
    ELSE IF is_expired(st.lockup_config, blk) THEN Err("Expired", st)
    ELSE LET auth == authorize_sender(st.covenant_config, sender)
             rq_party == auth.party
             rq_terms == st.ragequit_config
         IN
         IF ~auth.ok THEN Err("Unauthorized", st)
         ELSE IF st.covenant_config.covenant_type = "Share"
                 /\ rq_party.allocation < rq_terms.penalty
         THEN Err("Overflow", st)
         ELSE LET withdraw_percentage ==
                      IF st.covenant_config.covenant_type = "Share"
                      THEN PctSome(rq_party.allocation - rq_terms.penalty)
                      ELSE PctNone
              IN  Ok([st EXCEPT !.withdraw_state =
                                    ProcessingRagequit(rq_party.host_addr, rq_terms.penalty)],
                     <<generate_withdraw_msg(st.liquid_pooler_address, withdraw_percentage)>>)

\* DenomSplits::get_fallback_distribution_messages(available_balances)
RECURSIVE get_fallback_distribution_messages(_, _)
get_fallback_distribution_messages(denom_splits, coins) ==
    IF coins = <<>> \/ ~denom_splits.fallback_split.some THEN <<>>
    ELSE LET c == Head(coins)
             res == get_transfer_messages(denom_splits.fallback_split.split, c.amount, c.denom, NO_ADDR)
         IN  (IF res.ok THEN res.msgs ELSE <<>>)
             \o get_fallback_distribution_messages(denom_splits, Tail(coins))

\* try_distribute_fallback_split passing over the denoms that have a split of
\* their own, and distributing the rest
try_distribute_fallback_split_skips_explicit(st, bal, denoms) ==
    LET rest == SelectSeq(denoms, LAMBDA d : d \notin DOMAIN st.denom_splits.explicit_splits)
        available_balances == [i \in 1..Len(rest) |-> Coin(rest[i], bal[rest[i]])]
    IN  Ok(st, get_fallback_distribution_messages(st.denom_splits, available_balances))

\* try_distribute_fallback_split(deps, env, denoms)
try_distribute_fallback_split(st, bal, denoms) ==
    IF \E i \in 1..Len(denoms) : denoms[i] \in DOMAIN st.denom_splits.explicit_splits
    THEN Err("UnauthorizedDenomDistribution", st)
    ELSE LET available_balances == [i \in 1..Len(denoms) |-> Coin(denoms[i], bal[denoms[i]])]
         IN  Ok(st, get_fallback_distribution_messages(st.denom_splits, available_balances))

\* -------------------------------------------------------- instantiate
\* deposit_deadline.partial_cmp(&lockup_config) of cw_utils::Expiration is Some:
\* two heights compare, two times compare, Never compares with everything; a
\* height and a time do not compare
expiry_comparable(deadline, lockup) ==
    deadline.kind = "None" \/ lockup.kind = "None" \/ deadline.kind = lockup.kind

\* deposit_deadline.partial_cmp(&lockup_config) == Some(Ordering::Less): Never
\* is Greater than every height and time and Equal to Never
expiry_less(deadline, lockup) ==
    /\ deadline.kind # "None"
    /\ lockup.kind = "None" \/ (deadline.kind = lockup.kind /\ deadline.at < lockup.at)

\* TwoPartyPolCovenantConfig::validate: the allocations sum to one
covenant_config_validate(covenant_config) ==
    covenant_config.party_a.allocation + covenant_config.party_b.allocation = ONE

\* RagequitConfig::validate(a_allocation, b_allocation)
ragequit_config_validate(ragequit_config, a_allocation, b_allocation) ==
    ~ragequit_config.enabled
    \/ (/\ ragequit_config.penalty >= 0
        /\ ragequit_config.penalty < ONE
        /\ ragequit_config.penalty < a_allocation
        /\ ragequit_config.penalty < b_allocation)

\* SplitConfig::validate(party_a, party_b)
split_validate(split, party_a, party_b) ==
    /\ \E i \in 1..Len(split) : split[i].addr = party_a
    /\ \E i \in 1..Len(split) : split[i].addr = party_b
    /\ LET share_a == (CHOOSE i \in 1..Len(split) : split[i].addr = party_a)
           share_b == (CHOOSE i \in 1..Len(split) : split[i].addr = party_b)
       IN  split[share_a].share + split[share_b].share = ONE

\* instantiate accepting a deposit deadline equal to the lockup expiration
instantiate_deadline_at_lockup(msg, blk) ==
    LET router_a == msg.covenant_config.party_a.router
        router_b == msg.covenant_config.party_b.router
        explicit_splits ==
            [d \in {d \in DOMAIN msg.splits : split_validate(msg.splits[d], router_a, router_b)}
               |-> msg.splits[d]]
        st == [contract_state |-> "Instantiated",
               withdraw_state |-> NoWithdraw,
               covenant_config |-> msg.covenant_config,
               ragequit_config |-> msg.ragequit_config,
               lockup_config |-> msg.lockup_config,
               deposit_deadline |-> msg.deposit_deadline,
               denom_splits |-> [explicit_splits |-> explicit_splits,
                                 fallback_split |-> msg.fallback_split],
               emergency_committee_addr |-> msg.emergency_committee_addr,
               clock_address |-> msg.clock_address,
               liquid_pooler_address |-> msg.next_contract]
    IN  IF is_expired(msg.deposit_deadline, blk) THEN Err("DepositDeadlineValidationError", st)
        ELSE IF ~expiry_comparable(msg.deposit_deadline, msg.lockup_config)
        THEN Err("ExpirationValidationError", st)
        ELSE IF ~(expiry_less(msg.deposit_deadline, msg.lockup_config)
                  \/ msg.deposit_deadline = msg.lockup_config)
        THEN Err("LockupValidationError", st)
        ELSE IF ~covenant_config_validate(msg.covenant_config)
        THEN Err("AllocationsDoNotSumToOne", st)
        ELSE IF ~ragequit_config_validate(msg.ragequit_config,
                                          msg.covenant_config.party_a.allocation,
                                          msg.covenant_config.party_b.allocation)
        THEN Err("RagequitPenaltyOutOfRange", st)
        ELSE IF msg.fallback_split.some
                /\ ~split_validate(msg.fallback_split.split, router_a, router_b)
        THEN Err("SplitMisconfig", st)
        ELSE Ok(st, <<[type |-> "enqueue", to |-> msg.clock_address]>>)

\* instantiate without the validation of the ragequit config
instantiate_ragequit_unchecked(msg, blk) ==
    LET router_a == msg.covenant_config.party_a.router
        router_b == msg.covenant_config.party_b.router
        explicit_splits ==
            [d \in {d \in DOMAIN msg.splits : split_validate(msg.splits[d], router_a, router_b)}
               |-> msg.splits[d]]
        st == [contract_state |-> "Instantiated",
               withdraw_state |-> NoWithdraw,
               covenant_config |-> msg.covenant_config,
               ragequit_config |-> msg.ragequit_config,
               lockup_config |-> msg.lockup_config,
               deposit_deadline |-> msg.deposit_deadline,
               denom_splits |-> [explicit_splits |-> explicit_splits,
                                 fallback_split |-> msg.fallback_split],
               emergency_committee_addr |-> msg.emergency_committee_addr,
               clock_address |-> msg.clock_address,
               liquid_pooler_address |-> msg.next_contract]
    IN  IF is_expired(msg.deposit_deadline, blk) THEN Err("DepositDeadlineValidationError", st)
        ELSE IF ~expiry_comparable(msg.deposit_deadline, msg.lockup_config)
        THEN Err("ExpirationValidationError", st)
        ELSE IF ~expiry_less(msg.deposit_deadline, msg.lockup_config)
        THEN Err("LockupValidationError", st)
        ELSE IF ~covenant_config_validate(msg.covenant_config)
        THEN Err("AllocationsDoNotSumToOne", st)
        ELSE IF msg.fallback_split.some
                /\ ~split_validate(msg.fallback_split.split, router_a, router_b)
        THEN Err("SplitMisconfig", st)
        ELSE Ok(st, <<[type |-> "enqueue", to |-> msg.clock_address]>>)

\* instantiate(deps, env, info, msg): the storage a successful instantiation
\* persists.  The explicit splits that fail validation are filtered out.
instantiate(msg, blk) ==
    LET router_a == msg.covenant_config.party_a.router
        router_b == msg.covenant_config.party_b.router
        explicit_splits ==
            [d \in {d \in DOMAIN msg.splits : split_validate(msg.splits[d], router_a, router_b)}
               |-> msg.splits[d]]
        st == [contract_state |-> "Instantiated",
               withdraw_state |-> NoWithdraw,
               covenant_config |-> msg.covenant_config,
               ragequit_config |-> msg.ragequit_config,
               lockup_config |-> msg.lockup_config,
               deposit_deadline |-> msg.deposit_deadline,
               denom_splits |-> [explicit_splits |-> explicit_splits,
                                 fallback_split |-> msg.fallback_split],
               emergency_committee_addr |-> msg.emergency_committee_addr,
               clock_address |-> msg.clock_address,
               liquid_pooler_address |-> msg.next_contract]
    IN  IF is_expired(msg.deposit_deadline, blk) THEN Err("DepositDeadlineValidationError", st)
        ELSE IF ~expiry_comparable(msg.deposit_deadline, msg.lockup_config)
        THEN Err("ExpirationValidationError", st)
        ELSE IF ~expiry_less(msg.deposit_deadline, msg.lockup_config)
        THEN Err("LockupValidationError", st)
        ELSE IF ~covenant_config_validate(msg.covenant_config)
        THEN Err("AllocationsDoNotSumToOne", st)
        ELSE IF ~ragequit_config_validate(msg.ragequit_config,
                                          msg.covenant_config.party_a.allocation,
                                          msg.covenant_config.party_b.allocation)
        THEN Err("RagequitPenaltyOutOfRange", st)
        ELSE IF msg.fallback_split.some
                /\ ~split_validate(msg.fallback_split.split, router_a, router_b)
        THEN Err("SplitMisconfig", st)
        ELSE Ok(st, <<[type |-> "enqueue", to |-> msg.clock_address]>>)

\* ------------------------------------------------------------ migrate
\* an optional field of a message
None == [some |-> FALSE]

Some(v) == [some |-> TRUE, v |-> v]

\* SplitConfig::validate_shares_and_receiver_addresses(api): the shares sum to
\* one (every address of the model is a valid address)
validate_shares_and_receiver_addresses(split) == validate_shares(split)

\* migrate(deps, env, msg) of the holder, MigrateMsg::UpdateConfig
migrate(st, blk, msg) ==
    LET st1 == IF msg.clock_addr.some THEN [st EXCEPT !.clock_address = msg.clock_addr.v] ELSE st
        st2 == IF msg.next_contract.some
               THEN [st1 EXCEPT !.liquid_pooler_address = msg.next_contract.v] ELSE st1
        st3 == IF msg.lockup_config.some
               THEN [st2 EXCEPT !.lockup_config = msg.lockup_config.v] ELSE st2
        st4 == IF msg.deposit_deadline.some
               THEN [st3 EXCEPT !.deposit_deadline = msg.deposit_deadline.v] ELSE st3
        st5 == IF msg.emergency_committee.some
               THEN [st4 EXCEPT !.emergency_committee_addr = msg.emergency_committee.v] ELSE st4
        st6 == IF msg.ragequit_config.some
               THEN [st5 EXCEPT !.ragequit_config = msg.ragequit_config.v] ELSE st5
        st7 == IF msg.covenant_config.some
               THEN [st6 EXCEPT !.covenant_config = msg.covenant_config.v] ELSE st6
        st8 == IF msg.denom_splits.some
               THEN [st7 EXCEPT !.denom_splits.explicit_splits = msg.denom_splits.v] ELSE st7
        st9 == IF msg.fallback_split.some
               THEN [st8 EXCEPT !.denom_splits.fallback_split =
                                    [some |-> TRUE, split |-> msg.fallback_split.v]]
               ELSE st8
    IN  IF msg.lockup_config.some /\ is_expired(msg.lockup_config.v, blk)
        THEN Err("lockup config is already past", st)
        ELSE IF msg.deposit_deadline.some /\ is_expired(msg.deposit_deadline.v, blk)
        THEN Err("deposit deadline is already past", st)
        ELSE IF msg.denom_splits.some
                /\ \E d \in DOMAIN msg.denom_splits.v :
                       ~validate_shares_and_receiver_addresses(msg.denom_splits.v[d])
        THEN Err("shares must add up to 1.0", st)
        ELSE IF msg.fallback_split.some
                /\ ~validate_shares_and_receiver_addresses(msg.fallback_split.v)
        THEN Err("shares must add up to 1.0", st)
        ELSE Ok(st9, <<>>)

\* ---------------------------------------------------- native splitter
\* the denoms in ascending order, as a range over SPLIT_CONFIG_MAP visits them
DenomOrder == <<DENOM_A, DENOM_B, DENOM_X>>

\* instantiate(deps, env, info, msg) of the native splitter
splitter_instantiate(msg) ==
    LET st == [contract |-> "native-splitter",
               clock_address |-> msg.clock_address,
               split_config_map |-> msg.splits,
               fallback_split |-> msg.fallback_split]
    IN  IF \E d \in DOMAIN msg.splits : ~validate_shares_and_receiver_addresses(msg.splits[d])
        THEN Err("shares must add up to 1.0", st)
        ELSE IF msg.fallback_split.some
                /\ ~validate_shares_and_receiver_addresses(msg.fallback_split.split)
        THEN Err("shares must add up to 1.0", st)
        ELSE Ok(st, <<[type |-> "enqueue", to |-> msg.clock_address]>>)

\* the loop of try_distribute over SPLIT_CONFIG_MAP
RECURSIVE SplitterDistribution(_, _, _)
SplitterDistribution(st, bal, denoms) ==
    IF denoms = <<>> THEN [ok |-> TRUE, msgs |-> <<>>]
    ELSE LET denom == Head(denoms)
             rest == SplitterDistribution(st, bal, Tail(denoms))
             tm == get_transfer_messages(st.split_config_map[denom], bal[denom], denom, NO_ADDR)
         IN  IF denom \notin DOMAIN st.split_config_map \/ bal[denom] = 0 THEN rest
             ELSE IF ~tm.ok \/ ~rest.ok THEN [ok |-> FALSE, msgs |-> <<>>]
             ELSE [ok |-> TRUE, msgs |-> tm.msgs \o rest.msgs]

\* try_distribute(deps, env) of the native splitter
splitter_try_distribute(st, bal) ==
    LET res == SplitterDistribution(st, bal, DenomOrder)
    IN  IF res.ok THEN Ok(st, res.msgs) ELSE Err("failed to checked_multiply", st)

\* ExecuteMsg::Tick of the native splitter
splitter_tick(st, bal, sender) ==
    IF ~verify_clock(sender, st.clock_address) THEN Err("NotClock", st)
    ELSE splitter_try_distribute(st, bal)

\* the loop of try_distribute_fallback over the requested denoms: the first
\* denom with a split of its own ends it with an error
RECURSIVE SplitterFallbackDistribution(_, _, _, _)
SplitterFallbackDistribution(st, split, bal, denoms) ==
    IF denoms = <<>> THEN [err |-> "Ok", msgs |-> <<>>]
    ELSE LET denom == Head(denoms)
             rest == SplitterFallbackDistribution(st, split, bal, Tail(denoms))
             tm == get_transfer_messages(split, bal[denom], denom, NO_ADDR)
         IN  IF denom \in DOMAIN st.split_config_map
             THEN [err |-> "unauthorized denom distribution", msgs |-> <<>>]
             ELSE IF bal[denom] # 0 /\ ~tm.ok
             THEN [err |-> "failed to checked_multiply", msgs |-> <<>>]
             ELSE IF rest.err # "Ok" THEN rest
             ELSE [err |-> "Ok", msgs |-> (IF bal[denom] # 0 THEN tm.msgs ELSE <<>>) \o rest.msgs]

\* try_distribute_fallback(deps, env, denoms) of the native splitter
splitter_try_distribute_fallback(st, bal, denoms) ==
    IF ~st.fallback_split.some THEN Err("no fallback split defined", st)
    ELSE LET res == SplitterFallbackDistribution(st, st.fallback_split.split, bal, denoms)
         IN  IF res.err = "Ok" THEN Ok(st, res.msgs) ELSE Err(res.err, st)

\* migrate(deps, env, msg) of the native splitter, MigrateMsg::UpdateConfig: the
\* splits and the fallback split are saved as they come
splitter_migrate(st, msg) ==
    LET st1 == IF msg.clock_addr.some THEN [st EXCEPT !.clock_address = msg.clock_addr.v] ELSE st
        st2 == IF msg.splits.some THEN [st1 EXCEPT !.split_config_map = msg.splits.v] ELSE st1
        st3 == IF msg.fallback_split.some
               THEN [st2 EXCEPT !.fallback_split = [some |-> TRUE, split |-> msg.fallback_split.v]]
               ELSE st2
    IN  Ok(st3, <<>>)

\* -------------------------------------------------- interchain router
\* NeutronMsg::IbcTransfer of one coin to the destination receiver
IbcTransfer(to, coin) == [type |-> "ibc", to |-> to, coins |-> <<coin>>]

\* the loop of the router's DistributeFallback over the requested denoms
RECURSIVE RouterFallbackDistribution(_, _, _)
RouterFallbackDistribution(st, bal, denoms) ==
    IF denoms = <<>> THEN [err |-> "Ok", msgs |-> <<>>]
    ELSE LET denom == Head(denoms)
             rest == RouterFallbackDistribution(st, bal, Tail(denoms))
         IN  IF denom \in st.denoms
             THEN [err |-> "unauthorized denom distribution", msgs |-> <<>>]
             ELSE IF rest.err # "Ok" THEN rest
             ELSE [err |-> "Ok",
                   msgs |-> (IF bal[denom] # 0
                             THEN <<IbcTransfer(st.destination_receiver_addr, Coin(denom, bal[denom]))>>
                             ELSE <<>>) \o rest.msgs]

\* ExecuteMsg::DistributeFallback { denoms } of the interchain router
router_try_distribute_fallback(st, bal, denoms) ==
    LET res == RouterFallbackDistribution(st, bal, denoms)
    IN  IF res.err = "Ok" THEN Ok(st, res.msgs) ELSE Err(res.err, st)

\* -------------------------------------------------------------- state
VARIABLES
    storage,    \* the holder's persisted items
    block,      \* env.block: height and time
    bal,        \* the holder's bank balance, per denom
    wallet,     \* what the parties still hold outside the covenant, per denom
    pool,       \* what the liquid pooler holds for the covenant, per denom
    pending,    \* the percentages of the withdraw requests the pooler has not yet answered
    last,       \* the most recent step: operation, sender, error kind, contract state and
                \* kind of withdraw state before it
    msgs        \* the messages the most recent step emitted

\* -------------------------------------------------------------- clock
\* the holder's own address
HOLDER_ADDR == "holder"

\* the whitelist the covenant instantiates its clock with: holder, the two
\* routers and the liquid pooler
ClockWhitelist == {HOLDER_ADDR, PARTY_A_ROUTER, PARTY_B_ROUTER, NEXT_CONTRACT}

\* addr is in the FIFO queue
Queued(queue, addr) == \E i \in 1..Len(queue) : queue[i] = addr

\* the clock after instantiation: an empty queue
clock_instantiate(whitelist, tick_max_gas, paused) ==
    [contract |-> "clock", queue |-> <<>>, paused |-> paused,
     whitelist |-> whitelist, tick_max_gas |-> tick_max_gas]

\* Enqueue appending the sender whether it is queued or not
clock_enqueue_appends_always(st, sender) ==
    IF st.paused THEN Err("Paused", st)
    ELSE IF sender \notin st.whitelist THEN Err("Unauthorized", st)
    ELSE Ok([st EXCEPT !.queue = Append(st.queue, sender)], <<>>)

\* Enqueue: fails if the clock is paused or the sender is not on the whitelist;
\* appends the sender if it is not already enqueued
clock_enqueue(st, sender) ==
    IF st.paused THEN Err("Paused", st)
    ELSE IF sender \notin st.whitelist THEN Err("Unauthorized", st)
    ELSE IF Queued(st.queue, sender) THEN Ok(st, <<>>)
    ELSE Ok([st EXCEPT !.queue = Append(st.queue, sender)], <<>>)

\* Dequeue: removes the sender from the queue
clock_dequeue(st, sender) ==
    IF sender \notin st.whitelist THEN Err("Unauthorized", st)
    ELSE Ok([st EXCEPT !.queue = SelectSeq(st.queue, LAMBDA a : a # sender)], <<>>)

\* the round of one tick putting back only the subscribers whose handler succeeded
RECURSIVE TickRound_drops_failed(_, _, _, _, _, _)
TickRound_drops_failed(queue, ticked, spent, tick_max_gas, costs, results) ==
    IF queue = <<>> \/ costs = <<>> \/ spent > tick_max_gas
    THEN [queue |-> queue, ticked |-> ticked]
    ELSE TickRound_drops_failed(
             IF Head(results) THEN Append(Tail(queue), Head(queue)) ELSE Tail(queue),
             Append(ticked, [addr |-> Head(queue), ok |-> Head(results)]),
             spent + Head(costs), tick_max_gas, Tail(costs), Tail(results))

\* the round of one tick: pop the head, invoke its tick handler, push it back;
\* a failure of the handler is recorded and the round goes on; the round halts
\* when every subscriber was ticked once or the gas spent exceeds tick_max_gas.
\* costs and results are what the handlers still to run burn and return, in
\* order; ticked are the subscribers the round has reached
RECURSIVE TickRound(_, _, _, _, _, _)
TickRound(queue, ticked, spent, tick_max_gas, costs, results) ==
    IF costs = <<>> \/ spent > tick_max_gas
    THEN [queue |-> queue, ticked |-> ticked]
    ELSE TickRound(Append(Tail(queue), Head(queue)),
                   Append(ticked, [addr |-> Head(queue), ok |-> Head(results)]),
                   spent + Head(costs), tick_max_gas, Tail(costs), Tail(results))

\* Tick: one atomic round; fails while the clock is paused
clock_tick(st, costs, results) ==
    IF st.paused THEN [err |-> "Paused", st |-> st, msgs |-> <<>>, ticked |-> <<>>]
    ELSE LET round == TickRound(st.queue, <<>>, 0, st.tick_max_gas, costs, results)
         IN  [err |-> "Ok",
              st |-> [st EXCEPT !.queue = round.queue],
              msgs |-> [i \in 1..Len(round.ticked) |-> [type |-> "tick", to |-> round.ticked[i].addr]],
              ticked |-> round.ticked]

\* ------------------------------------------- astroport liquid pooler
POOL_ADDR == "astroport_pool"

PairTypes == {"xyk", "stable"}

\* Decimal::from_ratio(numerator, denominator): the quotient rounded down to a
\* Decimal, in units of 1/ONE
decimal_from_ratio(numerator, denominator) == (numerator * ONE) \div denominator

\* Decimal::from_ratio panics when the denominator is zero or the quotient
\* does not fit a Decimal
decimal_from_ratio_panics(numerator, denominator) ==
    denominator = 0 \/ decimal_from_ratio(numerator, denominator) > Uint128MAX

\* Decimal::checked_mul_uint128(amount): the product rounded down
checked_mul_uint128(decimal, amount) ==
    LET product == (decimal * amount) \div ONE
    IN  [ok |-> product <= Uint128MAX, v |-> product]

\* an addition that wraps around at Uint128::MAX
checked_add_wrapping(a, b) == [ok |-> TRUE, v |-> (a + b) % (Uint128MAX + 1)]

\* Uint128::checked_add
checked_add(a, b) == [ok |-> a + b <= Uint128MAX, v |-> a + b]

\* DecimalRange::try_from(mid, delta): min = mid - delta, max = mid + delta
decimal_range_try_from(mid, delta) ==
    [ok |-> delta <= mid /\ mid + delta <= Uint128MAX, min |-> mid - delta, max |-> mid + delta]

\* DecimalRange::is_within_range(value)
is_within_range(range, value) == range.min <= value /\ value <= range.max

\* the ProvideLiquidity submessage to the pool, funded with the coins it provides
ProvideLiquidityMsg(contract_addr, assets, funds, receiver, reply_id) ==
    [type |-> "provide_liquidity", to |-> contract_addr, assets |-> assets, coins |-> funds,
     auto_stake |-> FALSE, receiver |-> receiver, reply_id |-> reply_id]

\* instantiate(deps, env, info, msg) of the pooler: no holder address is stored
pooler_instantiate(msg) ==
    LET decimal_range == decimal_range_try_from(msg.expected_pool_ratio,
                                                msg.acceptable_pool_ratio_delta)
        st == [contract |-> "astroport-liquid-pooler",
               contract_state |-> "Instantiated",
               clock_address |-> msg.clock_address,
               holder_address |-> None,
               lp_config |-> [pool_address |-> msg.pool_address,
                              single_side_lp_limits |-> msg.single_side_lp_limits,
                              expected_pool_ratio_range |->
                                  [min |-> decimal_range.min, max |-> decimal_range.max],
                              pair_type |-> msg.pair_type],
               provided_liquidity_info |-> [provided_amount_a |-> 0, provided_amount_b |-> 0]]
    IN  IF ~decimal_range.ok THEN Err("Overflow", [contract |-> "none"])
        ELSE Ok(st, <<>>)

\* validate_pair_type(querier, pool, pair_type); queried is the pool's answer
validate_pair_type(queried, pair_type) == queried = pair_type

\* try_get_double_side_lp_submsg providing all it holds of both assets
try_get_double_side_lp_submsg_all_of_both(st, token_a, token_b, pool_token_ratio, pool_token_a_bal, pool_token_b_bal) ==
    IF ~st.holder_address.some THEN Err("MissingHolderError", st)
    ELSE Ok([st EXCEPT !.provided_liquidity_info =
                 [provided_amount_a |-> @.provided_amount_a + token_a,
                  provided_amount_b |-> @.provided_amount_b + token_b]],
            <<ProvideLiquidityMsg(st.lp_config.pool_address, <<token_a, token_b>>,
                                  <<Coin(DENOM_A, token_a), Coin(DENOM_B, token_b)>>,
                                  st.holder_address.v, "DOUBLE_SIDED_REPLY_ID")>>)

\* try_get_double_side_lp_submsg(deps, token_a, token_b, pool_token_ratio,
\* pool_token_a_bal, pool_token_b_bal, lp_config)
try_get_double_side_lp_submsg(st, token_a, token_b, pool_token_ratio, pool_token_a_bal, pool_token_b_bal) ==
    IF ~st.holder_address.some THEN Err("MissingHolderError", st)
    ELSE LET required_token_a_amount == checked_mul_uint128(pool_token_ratio, token_b)
         IN  IF ~required_token_a_amount.ok THEN Err("Overflow", st)
             ELSE IF token_a < required_token_a_amount.v
                     /\ decimal_from_ratio_panics(pool_token_b_bal, pool_token_a_bal)
             THEN Err("panic", st)
             ELSE LET b_for_a == checked_mul_uint128(
                                     decimal_from_ratio(pool_token_b_bal, pool_token_a_bal),
                                     token_a)
                      enough_a == token_a >= required_token_a_amount.v
                      a_amount == IF enough_a THEN required_token_a_amount.v ELSE token_a
                      b_amount == IF enough_a THEN token_b ELSE b_for_a.v
                      info == st.provided_liquidity_info
                      new_b == checked_add(info.provided_amount_b, b_amount)
                      new_a == checked_add(info.provided_amount_a, a_amount)
                  IN  IF ~enough_a /\ ~b_for_a.ok THEN Err("Overflow", st)
                      ELSE IF ~new_b.ok \/ ~new_a.ok THEN Err("Overflow", st)
                      ELSE Ok([st EXCEPT !.provided_liquidity_info =
                                   [provided_amount_a |-> new_a.v, provided_amount_b |-> new_b.v]],
                              <<ProvideLiquidityMsg(st.lp_config.pool_address,
                                                    <<a_amount, b_amount>>,
                                                    <<Coin(DENOM_A, a_amount), Coin(DENOM_B, b_amount)>>,
                                                    st.holder_address.v, "DOUBLE_SIDED_REPLY_ID")>>)

\* try_get_single_side_lp_submsg(deps, coin_a, coin_b, lp_config): no message
\* when the one balance held is above its single-side limit
try_get_single_side_lp_submsg(st, coin_a, coin_b) ==
    IF ~st.holder_address.some THEN Err("MissingHolderError", st)
    ELSE LET info == st.provided_liquidity_info
             new_b == checked_add(info.provided_amount_b, coin_b)
             new_a == checked_add(info.provided_amount_a, coin_a)
         IN  IF coin_a = 0 /\ coin_b <= st.lp_config.single_side_lp_limits.asset_b_limit
             THEN IF ~new_b.ok THEN Err("Overflow", st)
                  ELSE Ok([st EXCEPT !.provided_liquidity_info.provided_amount_b = new_b.v],
                          <<ProvideLiquidityMsg(st.lp_config.pool_address, <<coin_a, coin_b>>,
                                                <<Coin(DENOM_B, coin_b)>>,
                                                st.holder_address.v, "SINGLE_SIDED_REPLY_ID")>>)
             ELSE IF coin_b = 0 /\ coin_a <= st.lp_config.single_side_lp_limits.asset_a_limit
             THEN IF ~new_a.ok THEN Err("Overflow", st)
                  ELSE Ok([st EXCEPT !.provided_liquidity_info.provided_amount_a = new_a.v],
                          <<ProvideLiquidityMsg(st.lp_config.pool_address, <<coin_a, coin_b>>,
                                                <<Coin(DENOM_A, coin_a)>>,
                                                st.holder_address.v, "SINGLE_SIDED_REPLY_ID")>>)
             ELSE Ok(st, <<>>)

\* the balance dispatch of try_lp
try_lp_dispatch(st, coin_a, coin_b, a_to_b_ratio, pool_token_a_bal, pool_token_b_bal) ==
    IF (coin_a = 0) # (coin_b = 0) THEN try_get_single_side_lp_submsg(st, coin_a, coin_b)
    ELSE IF coin_a # 0 /\ coin_b # 0
    THEN try_get_double_side_lp_submsg(st, coin_a, coin_b, a_to_b_ratio,
                                       pool_token_a_bal, pool_token_b_bal)
    ELSE Ok(st, <<>>)

\* try_lp validating the pool ratio only where both balances are held
try_lp_validates_double_sided_only(st, coin_a, coin_b, pair_type, pool_token_a_bal, pool_token_b_bal) ==
    IF ~validate_pair_type(pair_type, st.lp_config.pair_type) THEN Err("PairTypeMismatch", st)
    ELSE IF decimal_from_ratio_panics(pool_token_a_bal, pool_token_b_bal) THEN Err("panic", st)
    ELSE LET a_to_b_ratio == decimal_from_ratio(pool_token_a_bal, pool_token_b_bal)
         IN  IF coin_a # 0 /\ coin_b # 0
                /\ ~is_within_range(st.lp_config.expected_pool_ratio_range, a_to_b_ratio)
             THEN Err("PriceRangeError", st)
             ELSE try_lp_dispatch(st, coin_a, coin_b, a_to_b_ratio,
                                  pool_token_a_bal, pool_token_b_bal)

\* try_lp(deps, env): coin_a and coin_b are the pooler's own balances;
\* pair_type, pool_token_a_bal and pool_token_b_bal are what the pool answers
try_lp(st, coin_a, coin_b, pair_type, pool_token_a_bal, pool_token_b_bal) ==
    IF ~validate_pair_type(pair_type, st.lp_config.pair_type) THEN Err("PairTypeMismatch", st)
    ELSE IF decimal_from_ratio_panics(pool_token_a_bal, pool_token_b_bal) THEN Err("panic", st)
    ELSE LET a_to_b_ratio == decimal_from_ratio(pool_token_a_bal, pool_token_b_bal)
         IN  IF ~is_within_range(st.lp_config.expected_pool_ratio_range, a_to_b_ratio)
             THEN Err("PriceRangeError", st)
             ELSE try_lp_dispatch(st, coin_a, coin_b, a_to_b_ratio,
                                  pool_token_a_bal, pool_token_b_bal)

\* try_tick(deps, env, info) of the pooler
pooler_try_tick(st, sender, coin_a, coin_b, pair_type, pool_token_a_bal, pool_token_b_bal) ==
    IF ~verify_clock(sender, st.clock_address) THEN Err("NotClock", st)
    ELSE try_lp(st, coin_a, coin_b, pair_type, pool_token_a_bal, pool_token_b_bal)

\* migrate(deps, env, msg) of the pooler, MigrateMsg::UpdateConfig
pooler_migrate(st, msg) ==
    LET st1 == IF msg.clock_addr.some THEN [st EXCEPT !.clock_address = msg.clock_addr.v] ELSE st
        st2 == IF msg.holder_address.some
               THEN [st1 EXCEPT !.holder_address = Some(msg.holder_address.v)] ELSE st1
        st3 == IF msg.lp_config.some THEN [st2 EXCEPT !.lp_config = msg.lp_config.v] ELSE st2
    IN  Ok(st3, <<>>)

vars == <<storage, block, bal, wallet, pool, pending, last, msgs>>

InitialBlock == [height |-> 1, time |-> BlockNanos]

HalfSplit == Split(ONE \div 2, ONE - (ONE \div 2))

InstantiateMsg(alloc_a, ctype, rq, deadline, lockup, committee) ==
    [covenant_config |->
        [party_a |-> Party(PARTY_A_ADDR, PARTY_A_ROUTER, alloc_a, DENOM_A, 1),
         party_b |-> Party(PARTY_B_ADDR, PARTY_B_ROUTER, ONE - alloc_a, DENOM_B, 1),
         covenant_type |-> ctype],
     ragequit_config |-> rq,
     deposit_deadline |-> deadline,
     lockup_config |-> lockup,
     splits |-> (DENOM_A :> HalfSplit) @@ (DENOM_B :> HalfSplit),
     fallback_split |-> [some |-> TRUE, split |-> HalfSplit],
     emergency_committee_addr |-> committee,
     clock_address |-> CLOCK_ADDR,
     next_contract |-> NEXT_CONTRACT]

\* a deposit deadline no block of the model reaches, and no lockup
NoExpiries == <<ExpiryBlock(MaxHeight + 1), ExpiryNone>>

\* deposit deadline and lockup by height, and by time
BlockExpiries == {<<ExpiryBlock(2), ExpiryBlock(MaxHeight)>>}

TimeExpiries == {<<ExpiryTime(2 * BlockNanos), ExpiryTime(MaxHeight * BlockNanos)>>}

\* the instantiate messages the model starts from: both covenant types, ragequit
\* disabled and enabled, no lockup, expiry by height and by time; one party
\* holding the whole allocation; no emergency committee
InstantiateMsgs ==
    { InstantiateMsg(ONE \div 2, ctype, rq, ex[1], ex[2], COMMITTEE_ADDR) :
        ctype \in {"Share", "Side"},
        rq \in {RagequitDisabled, RagequitEnabled((ONE \div 2) - 1)},
        ex \in {NoExpiries} \cup BlockExpiries \cup TimeExpiries }
    \cup
    { InstantiateMsg(ONE, ctype, RagequitDisabled, ex[1], ex[2], COMMITTEE_ADDR) :
        ctype \in {"Share", "Side"}, ex \in BlockExpiries }
    \cup
    { InstantiateMsg(ONE \div 2, ctype, RagequitEnabled((ONE \div 2) - 1), ex[1], ex[2], NO_ADDR) :
        ctype \in {"Share", "Side"}, ex \in BlockExpiries }

Init ==
    /\ \E msg \in InstantiateMsgs :
          /\ instantiate(msg, InitialBlock).err = "Ok"
          /\ storage = instantiate(msg, InitialBlock).st
    /\ block = InitialBlock
    /\ bal = [d \in Denoms |-> 0]
    /\ wallet = [d \in Denoms |-> IF d = DENOM_A THEN MaxBal ELSE IF d = DENOM_B THEN 1 ELSE 0]
    /\ pool = [d \in Denoms |-> 0]
    /\ pending = <<>>
    /\ last = [op |-> "Instantiate", sender |-> NO_ADDR, err |-> "Ok", was |-> "Instantiated", ws |-> "None"]
    /\ msgs = <<>>

\* the coins of a funds map, in denom order, zero amounts left out
FundsCoins(f) ==
    (IF f[DENOM_A] > 0 THEN <<Coin(DENOM_A, f[DENOM_A])>> ELSE <<>>)
    \o (IF f[DENOM_B] > 0 THEN <<Coin(DENOM_B, f[DENOM_B])>> ELSE <<>>)
    \o (IF f[DENOM_X] > 0 THEN <<Coin(DENOM_X, f[DENOM_X])>> ELSE <<>>)

NoFunds == [d \in Denoms |-> 0]

\* One transaction on the holder: the attached funds arrive, the handler runs,
\* its bank sends are paid from the holder's balance.  A handler error, or a
\* send the balance does not cover, reverts the whole transaction.  A callback
\* from the pooler that the holder accepts answers the pending request.
Execute(op, sender, r, funds) ==
    LET inbal == [d \in Denoms |-> bal[d] + funds[d]]
        out == [d \in Denoms |-> BankOut(r.msgs, d)]
        bank_ok == \A d \in Denoms : out[d] <= inbal[d]
        ok == r.err = "Ok" /\ bank_ok
        answers == op \in {"Distribute", "WithdrawFailed"}
                   /\ sender = storage.liquid_pooler_address /\ pending # <<>>
    IN  /\ storage' = IF ok THEN r.st ELSE storage
        /\ bal' = IF ok THEN [d \in Denoms |-> inbal[d] - out[d]] ELSE bal
        /\ pool' = IF ok
                   THEN [d \in Denoms |-> (pool[d] - funds[d])
                                          + BankOutTo(r.msgs, storage.liquid_pooler_address, d)]
                   ELSE pool
        /\ pending' = IF ok
                      THEN (IF answers THEN Tail(pending) ELSE pending) \o WithdrawRequests(r.msgs)
                      ELSE pending
        /\ last' = [op |-> op, sender |-> sender,
                    err |-> IF r.err # "Ok" THEN r.err ELSE IF bank_ok THEN "Ok" ELSE "InsufficientFunds",
                    was |-> storage.contract_state,
                ws |-> storage.withdraw_state.kind]
        /\ msgs' = IF ok THEN r.msgs ELSE <<>>
        /\ UNCHANGED <<block, wallet>>

\* ------------------------------------------------------------ actions
\* the chain produces the next block
AdvanceBlock ==
    /\ block.height < MaxHeight
    /\ block' = [height |-> block.height + 1, time |-> block.time + BlockNanos]
    /\ last' = [op |-> "AdvanceBlock", sender |-> NO_ADDR, err |-> "Ok", was |-> storage.contract_state,
                ws |-> storage.withdraw_state.kind]
    /\ msgs' = <<>>
    /\ UNCHANGED <<storage, bal, wallet, pool, pending>>

\* a party sends one unit of a denom to the holder's deposit address
Fund ==
    \E d \in Denoms :
        /\ wallet[d] > 0
        /\ wallet' = [wallet EXCEPT ![d] = @ - 1]
        /\ bal' = [bal EXCEPT ![d] = @ + 1]
        /\ last' = [op |-> "Fund", sender |-> NO_ADDR, err |-> "Ok", was |-> storage.contract_state,
                ws |-> storage.withdraw_state.kind]
        /\ msgs' = <<>>
        /\ UNCHANGED <<storage, block, pool, pending>>

ExecTick ==
    \E sender \in {CLOCK_ADDR, OTHER_ADDR} :
        LET r == try_tick(storage, block, bal, sender)
        IN  Execute("Tick", sender, r, NoFunds)

ExecClaim ==
    \E sender \in {PARTY_A_ADDR, PARTY_B_ADDR, OTHER_ADDR} :
        LET r == try_claim(storage, sender)
        IN  Execute("Claim", sender, r, NoFunds)

ExecRagequit ==
    \E sender \in {PARTY_A_ADDR, PARTY_B_ADDR, OTHER_ADDR} :
        LET r == try_ragequit(storage, block, sender)
        IN  Execute("Ragequit", sender, r, NoFunds)

ExecEmergencyWithdraw ==
    \E sender \in {COMMITTEE_ADDR, OTHER_ADDR} :
        LET r == try_emergency_withdraw(storage, sender)
        IN  Execute("EmergencyWithdraw", sender, r, NoFunds)

\* the coins the pooler withdraws for a request: the requested percentage of
\* what it holds for the covenant, rounded down; None is 100 %
WithdrawnFunds(pct) ==
    [d \in Denoms |-> IF pct.some THEN (pool[d] * pct.v) \div ONE ELSE pool[d]]

\* the pooler answers its oldest unanswered request by routing the withdrawn
\* coins to the holder's Distribute entry point; a Distribute that answers no
\* request, or that anybody else sends, carries no funds
ExecDistribute ==
    \E sender \in {NEXT_CONTRACT, OTHER_ADDR} :
        LET funds == IF sender = NEXT_CONTRACT /\ pending # <<>>
                     THEN WithdrawnFunds(Head(pending)) ELSE NoFunds
            r == try_distribute(storage, sender, FundsCoins(funds))
        IN  Execute("Distribute", sender, r, funds)

ExecWithdrawFailed ==
    \E sender \in {NEXT_CONTRACT, OTHER_ADDR} :
        LET r == try_withdraw_failed(storage, sender)
        IN  Execute("WithdrawFailed", sender, r, NoFunds)

ExecDistributeFallbackSplit ==
    \E denoms \in {<<DENOM_X>>, <<DENOM_X, DENOM_A>>} :
        LET r == try_distribute_fallback_split(storage, bal, denoms)
        IN  Execute("DistributeFallbackSplit", OTHER_ADDR, r, NoFunds)

Next ==
    \/ AdvanceBlock
    \/ Fund
    \/ ExecTick
    \/ ExecClaim
    \/ ExecRagequit
    \/ ExecEmergencyWithdraw
    \/ ExecDistribute
    \/ ExecWithdrawFailed
    \/ ExecDistributeFallbackSplit

Spec == Init /\ [][Next]_vars

\* ------------------------------------------------- the claim flow
\* covenants of both types with equal allocations, ragequit disabled and
\* enabled, a deposit deadline and a lockup the chain reaches
ClaimFlowMsgs ==
    { InstantiateMsg(ONE \div 2, ctype, rq, ExpiryBlock(2), ExpiryBlock(MaxHeight), COMMITTEE_ADDR) :
        ctype \in {"Share", "Side"},
        rq \in {RagequitDisabled, RagequitEnabled((ONE \div 2) - 1)} }

ClaimFlowInit ==
    /\ storage \in {instantiate(msg, InitialBlock).st : msg \in ClaimFlowMsgs}
    /\ block = InitialBlock
    /\ bal = [d \in Denoms |-> 0]
    /\ wallet = [d \in Denoms |-> IF d \in {DENOM_A, DENOM_B} THEN 1 ELSE 0]
    /\ pool = [d \in Denoms |-> 0]
    /\ pending = <<>>
    /\ last = [op |-> "Instantiate", sender |-> NO_ADDR, err |-> "Ok", was |-> "Instantiated", ws |-> "None"]
    /\ msgs = <<>>

\* the clock ticks the holder
ClockTicks ==
    \E r \in {try_tick(storage, block, bal, CLOCK_ADDR)} : Execute("Tick", CLOCK_ADDR, r, NoFunds)

\* a party that still has an allocation submits Claim
PartyClaims(sender) ==
    /\ authorize_sender(storage.covenant_config, sender).ok
    /\ authorize_sender(storage.covenant_config, sender).party.allocation # 0
    /\ \E r \in {try_claim(storage, sender)} : Execute("Claim", sender, r, NoFunds)

\* the pooler answers its oldest unanswered request with Distribute
PoolerDistributes ==
    /\ pending # <<>>
    /\ \E funds \in {WithdrawnFunds(Head(pending))} :
          \E r \in {try_distribute(storage, NEXT_CONTRACT, FundsCoins(funds))} :
              Execute("Distribute", NEXT_CONTRACT, r, funds)

\* a party asks to leave the covenant early
PartyRagequits ==
    \E sender \in {PARTY_A_ADDR, PARTY_B_ADDR} :
        \E r \in {try_ragequit(storage, block, sender)} : Execute("Ragequit", sender, r, NoFunds)

\* the emergency committee pulls the liquidity
CommitteeWithdraws ==
    \E r \in {try_emergency_withdraw(storage, COMMITTEE_ADDR)} :
        Execute("EmergencyWithdraw", COMMITTEE_ADDR, r, NoFunds)

ClaimFlowNext ==
    \/ AdvanceBlock
    \/ Fund
    \/ ClockTicks
    \/ PartyClaims(PARTY_A_ADDR)
    \/ PartyClaims(PARTY_B_ADDR)
    \/ PartyRagequits
    \/ CommitteeWithdraws
    \/ PoolerDistributes

\* blocks keep coming, the clock keeps ticking, the pooler answers every
\* request with Distribute, and each party claims while it has an allocation
ClaimFlowFairSpec ==
    /\ ClaimFlowInit
    /\ [][ClaimFlowNext]_vars
    /\ WF_vars(AdvanceBlock)
    /\ WF_vars(ClockTicks)
    /\ WF_vars(PoolerDistributes)
    /\ WF_vars(PartyClaims(PARTY_A_ADDR))
    /\ WF_vars(PartyClaims(PARTY_B_ADDR))

\* ------------------------------------------------ the ragequit flow
\* covenants with ragequit enabled whose explicit split for party A's denom is
\* even, or gives everything to one router
RagequitMsgs ==
    { [InstantiateMsg(ONE \div 2, ctype, RagequitEnabled((ONE \div 2) - 1),
                      ExpiryBlock(2), ExpiryBlock(MaxHeight), COMMITTEE_ADDR)
          EXCEPT !.splits = (DENOM_A :> s) @@ (DENOM_B :> HalfSplit)] :
        ctype \in {"Share", "Side"}, s \in {HalfSplit, Split(0, ONE), Split(ONE, 0)} }

RagequitInit ==
    /\ \E msg \in RagequitMsgs :
          /\ instantiate(msg, InitialBlock).err = "Ok"
          /\ storage = instantiate(msg, InitialBlock).st
    /\ block = InitialBlock
    /\ bal = [d \in Denoms |-> 0]
    /\ wallet = [d \in Denoms |-> IF d = DENOM_A THEN MaxBal ELSE IF d = DENOM_B THEN 1 ELSE 0]
    /\ pool = [d \in Denoms |-> 0]
    /\ pending = <<>>
    /\ last = [op |-> "Instantiate", sender |-> NO_ADDR, err |-> "Ok", was |-> "Instantiated", ws |-> "None"]
    /\ msgs = <<>>

RagequitNext ==
    \/ AdvanceBlock
    \/ Fund
    \/ ClockTicks
    \/ PartyRagequits
    \/ PoolerDistributes

RagequitSpec == RagequitInit /\ [][RagequitNext]_vars

\* ------------------------------------------- fallback distribution
\* which contract a storage belongs to
ContractKind(st) == IF "covenant_config" \in DOMAIN st THEN "two-party-pol-holder" ELSE st.contract

\* amount of denom d the bank and IBC transfer messages of a response send
RECURSIVE TransferOut(_, _)
TransferOut(ms, d) ==
    IF ms = <<>> THEN 0
    ELSE (IF Head(ms).type \in {"bank", "ibc"} THEN CoinsAmount(Head(ms).coins, d) ELSE 0)
         + TransferOut(Tail(ms), d)

\* One transaction on a contract that talks to no pooler: the handler runs, its
\* transfers are paid from the contract's balance; an error, or a transfer the
\* balance does not cover, reverts it.  arg is the argument of the call.
Run(op, sender, arg, r) ==
    LET out == [d \in Denoms |-> TransferOut(r.msgs, d)]
        bank_ok == \A d \in Denoms : out[d] <= bal[d]
        ok == r.err = "Ok" /\ bank_ok
    IN  /\ storage' = IF ok THEN r.st ELSE storage
        /\ bal' = IF ok THEN [d \in Denoms |-> bal[d] - out[d]] ELSE bal
        /\ last' = [op |-> op, sender |-> sender,
                    err |-> IF r.err # "Ok" THEN r.err ELSE IF bank_ok THEN "Ok" ELSE "InsufficientFunds",
                    was |-> ContractKind(storage), ws |-> "None", arg |-> arg]
        /\ msgs' = IF ok THEN r.msgs ELSE <<>>
        /\ UNCHANGED <<block, wallet, pool, pending>>

NoSplit == [some |-> FALSE, split |-> <<>>]

\* the requests for a fallback distribution: one denom, or two different ones
DenomLists ==
    {<<d>> : d \in Denoms} \cup {p \in Denoms \X Denoms : p[1] # p[2]}

\* with a split of its own for both contribution denoms, or for the first only
ExplicitSplitChoices == {(DENOM_A :> HalfSplit) @@ (DENOM_B :> HalfSplit), (DENOM_A :> HalfSplit)}

\* no fallback split, an even one, all to party A's router
FallbackSplitChoices ==
    {NoSplit, [some |-> TRUE, split |-> HalfSplit], [some |-> TRUE, split |-> Split(ONE, 0)]}

\* the receiver of the interchain router
DEFAULT_RECEIVER == "receiver"

\* the storage of an interchain router instantiated with these target denoms
RouterStorage(denoms) ==
    [contract |-> "interchain-router",
     clock_address |-> CLOCK_ADDR,
     denoms |-> denoms,
     destination_receiver_addr |-> DEFAULT_RECEIVER]

FallbackHolderMsg(splits, fallback) ==
    [InstantiateMsg(ONE \div 2, "Share", RagequitDisabled, NoExpiries[1], NoExpiries[2], COMMITTEE_ADDR)
        EXCEPT !.splits = splits, !.fallback_split = fallback]

SplitterMsg(splits, fallback) ==
    [clock_address |-> CLOCK_ADDR, splits |-> splits, fallback_split |-> fallback]

\* a holder, a native splitter or an interchain router, just instantiated,
\* holding nothing
FallbackInit ==
    /\ \/ \E splits \in ExplicitSplitChoices, fallback \in FallbackSplitChoices :
             LET r == instantiate(FallbackHolderMsg(splits, fallback), InitialBlock)
             IN  r.err = "Ok" /\ storage = r.st
       \/ \E splits \in ExplicitSplitChoices, fallback \in FallbackSplitChoices :
             LET r == splitter_instantiate(SplitterMsg(splits, fallback))
             IN  r.err = "Ok" /\ storage = r.st
       \/ \E denoms \in {{DENOM_A}, {DENOM_A, DENOM_B}} : storage = RouterStorage(denoms)
    /\ block = InitialBlock
    /\ bal = [d \in Denoms |-> 0]
    /\ wallet = [d \in Denoms |-> IF d = DENOM_X THEN MaxBal ELSE 1]
    /\ pool = [d \in Denoms |-> 0]
    /\ pending = <<>>
    /\ last = [op |-> "Instantiate", sender |-> NO_ADDR, err |-> "Ok",
               was |-> ContractKind(storage), ws |-> "None", arg |-> <<>>]
    /\ msgs = <<>>

\* somebody sends one unit of a denom to the contract
Deposit ==
    \E d \in Denoms :
        /\ wallet[d] > 0
        /\ wallet' = [wallet EXCEPT ![d] = @ - 1]
        /\ bal' = [bal EXCEPT ![d] = @ + 1]
        /\ last' = [op |-> "Deposit", sender |-> NO_ADDR, err |-> "Ok",
                    was |-> ContractKind(storage), ws |-> "None", arg |-> <<d>>]
        /\ msgs' = <<>>
        /\ UNCHANGED <<storage, block, pool, pending>>

HolderDistributeFallbackSplit ==
    /\ ContractKind(storage) = "two-party-pol-holder"
    /\ \E denoms \in DenomLists :
          LET r == try_distribute_fallback_split(storage, bal, denoms)
          IN  Run("DistributeFallbackSplit", OTHER_ADDR, denoms, r)

SplitterDistributeFallback ==
    /\ ContractKind(storage) = "native-splitter"
    /\ \E denoms \in DenomLists :
          LET r == splitter_try_distribute_fallback(storage, bal, denoms)
          IN  Run("DistributeFallback", OTHER_ADDR, denoms, r)

SplitterTick ==
    /\ ContractKind(storage) = "native-splitter"
    /\ \E sender \in {CLOCK_ADDR, OTHER_ADDR} :
          LET r == splitter_tick(storage, bal, sender)
          IN  Run("Tick", sender, <<>>, r)

RouterDistributeFallback ==
    /\ ContractKind(storage) = "interchain-router"
    /\ \E denoms \in DenomLists :
          LET r == router_try_distribute_fallback(storage, bal, denoms)
          IN  Run("DistributeFallback", OTHER_ADDR, denoms, r)

FallbackNext ==
    \/ Deposit
    \/ HolderDistributeFallbackSplit
    \/ SplitterDistributeFallback
    \/ SplitterTick
    \/ RouterDistributeFallback

FallbackSpec == FallbackInit /\ [][FallbackNext]_vars

\* ------------------------------------------------ persisted splits
\* the splits a message may carry: two that sum to one, one below and one above
\* one, and two with a third receiver: the routers' shares summing to one, and all
\* three summing to one
SplitChoices ==
    { Split(ONE \div 2, ONE - (ONE \div 2)),
      Split(ONE, 0),
      Split(ONE \div 2, 0),
      Split(ONE, ONE),
      <<[addr |-> OTHER_ADDR, share |-> ONE \div 2]>> \o Split(ONE \div 2, ONE - (ONE \div 2)),
      <<[addr |-> OTHER_ADDR, share |-> ONE \div 2]>> \o Split(0, ONE - (ONE \div 2)) }

OptionalSplits == {NoSplit} \cup {[some |-> TRUE, split |-> s] : s \in SplitChoices}

ADMIN_ADDR == "admin"

HolderMigrateMsg(denom_splits, fallback_split) ==
    [clock_addr |-> None, next_contract |-> None, lockup_config |-> None,
     deposit_deadline |-> None, ragequit_config |-> None, covenant_config |-> None,
     denom_splits |-> denom_splits, fallback_split |-> fallback_split,
     emergency_committee |-> None]

SplitterMigrateMsg(splits, fallback_split) ==
    [clock_addr |-> None, splits |-> splits, fallback_split |-> fallback_split]

\* a holder or a native splitter, instantiated with any of the splits
SplitConfigInit ==
    /\ \/ \E s \in SplitChoices, fallback \in OptionalSplits :
             LET r == instantiate(FallbackHolderMsg((DENOM_A :> s), fallback), InitialBlock)
             IN  r.err = "Ok" /\ storage = r.st
       \/ \E s \in SplitChoices, fallback \in OptionalSplits :
             LET r == splitter_instantiate(SplitterMsg((DENOM_A :> s), fallback))
             IN  r.err = "Ok" /\ storage = r.st
    /\ block = InitialBlock
    /\ bal = [d \in Denoms |-> 0]
    /\ wallet = [d \in Denoms |-> 0]
    /\ pool = [d \in Denoms |-> 0]
    /\ pending = <<>>
    /\ last = [op |-> "Instantiate", sender |-> NO_ADDR, err |-> "Ok",
               was |-> ContractKind(storage), ws |-> "None", arg |-> <<>>]
    /\ msgs = <<>>

HolderMigrate ==
    /\ ContractKind(storage) = "two-party-pol-holder"
    /\ \E ds \in {None} \cup {Some(DENOM_B :> s) : s \in SplitChoices},
          fs \in {None} \cup {Some(s) : s \in SplitChoices} :
          LET msg == HolderMigrateMsg(ds, fs)
              r == migrate(storage, block, msg)
          IN  Run("Migrate", ADMIN_ADDR, <<>>, r)

SplitterMigrate ==
    /\ ContractKind(storage) = "native-splitter"
    /\ \E ds \in {None} \cup {Some(DENOM_B :> s) : s \in SplitChoices},
          fs \in {None} \cup {Some(s) : s \in SplitChoices} :
          LET msg == SplitterMigrateMsg(ds, fs)
              r == splitter_migrate(storage, msg)
          IN  Run("Migrate", ADMIN_ADDR, <<>>, r)

SplitConfigNext ==
    \/ HolderMigrate
    \/ SplitterMigrate

SplitConfigSpec == SplitConfigInit /\ [][SplitConfigNext]_vars

\* ------------------------------------------- a third receiver
\* an explicit split instantiate accepts: the two routers' shares sum to one,
\* and a third receiver has a share beside them
ThreeWaySplit ==
    <<[addr |-> OTHER_ADDR, share |-> ONE \div 2]>> \o Split(ONE \div 2, ONE - (ONE \div 2))

ThreeWayMsgs ==
    { [InstantiateMsg(ONE \div 2, ctype, RagequitDisabled, ex[1], ex[2], COMMITTEE_ADDR)
          EXCEPT !.splits = (DENOM_A :> ThreeWaySplit) @@ (DENOM_B :> HalfSplit)] :
        ctype \in {"Share", "Side"}, ex \in {NoExpiries} \cup BlockExpiries }

\* the holder instantiated with the three-way split for party A's denom; party
\* A's wallet holds one unit more than its contribution can take
ThreeWayInit ==
    /\ \E msg \in ThreeWayMsgs :
          /\ instantiate(msg, InitialBlock).err = "Ok"
          /\ storage = instantiate(msg, InitialBlock).st
    /\ block = InitialBlock
    /\ bal = [d \in Denoms |-> 0]
    /\ wallet = [d \in Denoms |-> IF d = DENOM_A THEN MaxBal + 1 ELSE IF d = DENOM_B THEN 1 ELSE 0]
    /\ pool = [d \in Denoms |-> 0]
    /\ pending = <<>>
    /\ last = [op |-> "Instantiate", sender |-> NO_ADDR, err |-> "Ok", was |-> "Instantiated", ws |-> "None"]
    /\ msgs = <<>>

ThreeWaySpec == ThreeWayInit /\ [][Next]_vars

\* ------------------------------------------------------- instantiation
\* no contract yet
NotInstantiated == [contract |-> "none"]

\* Expiration::{Never, AtHeight(h), AtTime(t)} over the heights and times of the
\* model's blocks
Expirations ==
    {ExpiryNone} \cup {ExpiryBlock(h) : h \in 1..MaxHeight}
                 \cup {ExpiryTime(h * BlockNanos) : h \in 1..MaxHeight}

\* allocations and penalties: nothing, the smallest fraction, the two halves, all
Fractions == {0, 1, ONE \div 2, ONE - (ONE \div 2), ONE}

RagequitChoices == {RagequitDisabled} \cup {RagequitEnabled(p) : p \in Fractions}

\* the explicit split supplied for DENOM_A: well-formed, shares not summing to
\* one, a router missing, a third receiver beside the routers
SuppliedSplits ==
    { Split(ONE \div 2, ONE - (ONE \div 2)),
      Split(ONE \div 2, 0),
      <<[addr |-> PARTY_A_ROUTER, share |-> ONE]>>,
      <<[addr |-> OTHER_ADDR, share |-> ONE \div 2]>> \o Split(ONE \div 2, ONE - (ONE \div 2)) }

SuppliedFallbacks ==
    {NoSplit, [some |-> TRUE, split |-> HalfSplit], [some |-> TRUE, split |-> Split(ONE \div 2, 0)]}

\* the messages instantiate is called with
SuppliedInstantiateMsgs ==
    { [InstantiateMsg(alloc_a, "Share", rq, deadline, lockup, COMMITTEE_ADDR)
          EXCEPT !.covenant_config.party_b.allocation = alloc_b,
                 !.splits = (DENOM_A :> s) @@ (DENOM_B :> HalfSplit),
                 !.fallback_split = fallback] :
        alloc_a \in Fractions, alloc_b \in Fractions, rq \in RagequitChoices,
        deadline \in Expirations, lockup \in Expirations,
        s \in SuppliedSplits, fallback \in SuppliedFallbacks }

InstantiateInit ==
    /\ storage = NotInstantiated
    /\ block = InitialBlock
    /\ bal = [d \in Denoms |-> 0]
    /\ wallet = [d \in Denoms |-> 0]
    /\ pool = [d \in Denoms |-> 0]
    /\ pending = <<>>
    /\ last = [op |-> "none", sender |-> NO_ADDR, err |-> "Ok",
               was |-> "none", ws |-> "None", arg |-> <<>>]
    /\ msgs = <<>>

\* a block passes before the holder is instantiated
NextBlock ==
    /\ last.op # "Instantiate"
    /\ block.height < MaxHeight
    /\ block' = [height |-> block.height + 1, time |-> block.time + BlockNanos]
    /\ last' = [last EXCEPT !.op = "NextBlock"]
    /\ UNCHANGED <<storage, bal, wallet, pool, pending, msgs>>

\* the holder is instantiated, once, at the current block
HolderInstantiate ==
    /\ last.op # "Instantiate"
    /\ \E msg \in SuppliedInstantiateMsgs :
          Run("Instantiate", NO_ADDR, msg, instantiate(msg, block))

InstantiateNext ==
    \/ NextBlock
    \/ HolderInstantiate

InstantiateSpec == InstantiateInit /\ [][InstantiateNext]_vars

\* ------------------------------------------------------- split engine
\* shares of a receiver: every fraction up to one, and two
ShareChoices == 0..ONE \cup {2 * ONE}

\* the receivers of a split, in key order
ReceiverOrder == <<OTHER_ADDR, PARTY_A_ROUTER, PARTY_B_ROUTER>>

\* the split with the given receivers and shares, in key order
SplitOf(shares) ==
    LET present == SelectSeq(ReceiverOrder, LAMBDA a : a \in DOMAIN shares)
    IN  [i \in 1..Len(present) |-> [addr |-> present[i], share |-> shares[present[i]]]]

\* every SplitConfig over one, two or three of the receivers
SplitConfigs ==
    { SplitOf(shares) :
        shares \in UNION { [rs -> ShareChoices] :
                             rs \in (SUBSET {OTHER_ADDR, PARTY_A_ROUTER, PARTY_B_ROUTER}) \ {{}} } }

SplitEngineInit ==
    /\ storage \in {[contract |-> "split-config", receivers |-> s] : s \in SplitConfigs}
    /\ block = InitialBlock
    /\ bal = [d \in Denoms |-> 0]
    /\ wallet = [d \in Denoms |-> 0]
    /\ pool = [d \in Denoms |-> 0]
    /\ pending = <<>>
    /\ last = [op |-> "none", sender |-> NO_ADDR, err |-> "Ok",
               was |-> "split-config", ws |-> "None", arg |-> <<>>]
    /\ msgs = <<>>

\* get_transfer_messages(amount, denom, filter_addr) is called on the split
GetTransferMessages ==
    \E amount \in 0..Uint128MAX,
       filter_addr \in {NO_ADDR, OTHER_ADDR, PARTY_A_ROUTER, PARTY_B_ROUTER} :
        LET r == get_transfer_messages(storage.receivers, amount, DENOM_A, filter_addr)
        IN  /\ msgs' = r.msgs
            /\ last' = [op |-> "get_transfer_messages", sender |-> NO_ADDR,
                        err |-> IF r.ok THEN "Ok" ELSE "failed to checked_multiply",
                        was |-> "split-config", ws |-> "None",
                        arg |-> [amount |-> amount, denom |-> DENOM_A, filter_addr |-> filter_addr]]
            /\ UNCHANGED <<storage, block, bal, wallet, pool, pending>>

\* the ragequit penalty is applied to the split, which is replaced by the result
ApplyPenalty ==
    \E penalty \in 0..ONE,
       routers \in {<<PARTY_A_ROUTER, PARTY_B_ROUTER>>, <<PARTY_B_ROUTER, PARTY_A_ROUTER>>} :
        LET r == apply_penalty_to_split(storage.receivers, penalty,
                                        [router |-> routers[1]], [router |-> routers[2]])
        IN  /\ storage' = IF r.ok THEN [storage EXCEPT !.receivers = r.split] ELSE storage
            /\ msgs' = <<>>
            /\ last' = [op |-> "apply_penalty", sender |-> NO_ADDR,
                        err |-> IF r.ok THEN "Ok" ELSE "failed to apply penalty",
                        was |-> "split-config", ws |-> "None",
                        arg |-> [penalty |-> penalty, rq_router |-> routers[1],
                                 cp_router |-> routers[2], receivers |-> storage.receivers]]
            /\ UNCHANGED <<block, bal, wallet, pool, pending>>

SplitEngineNext ==
    \/ GetTransferMessages
    \/ ApplyPenalty

SplitEngineSpec == SplitEngineInit /\ [][SplitEngineNext]_vars

\* --------------------------------------------------- receiver remapping
\* the placeholder the counterparty discovery covenant passes as both routers
TODO_ROUTER == "TODO"

\* the keys of a receivers map in the order of BTreeMap<String, _>
AddressOrder == <<TODO_ROUTER, OTHER_ADDR, PARTY_A_ADDR, PARTY_B_ADDR, PARTY_A_ROUTER, PARTY_B_ROUTER>>

AddressRank(addr) == CHOOSE i \in 1..Len(AddressOrder) : AddressOrder[i] = addr

\* BTreeMap::get
map_get(receivers, key) ==
    IF \E i \in 1..Len(receivers) : receivers[i].addr = key
    THEN Some(receivers[CHOOSE i \in 1..Len(receivers) : receivers[i].addr = key].share)
    ELSE None

\* BTreeMap::insert: the value of a key that is already present is replaced
map_insert(receivers, key, val) ==
    SelectSeq(receivers, LAMBDA e : AddressRank(e.addr) < AddressRank(key))
    \o <<[addr |-> key, share |-> val]>>
    \o SelectSeq(receivers, LAMBDA e : AddressRank(e.addr) > AddressRank(key))

\* the loop of remap_receivers_to_routers over the (old, new) pairs
RECURSIVE RemapLoop(_, _, _)
RemapLoop(receivers, remaps, new_receivers) ==
    IF remaps = <<>> THEN [ok |-> TRUE, receivers |-> new_receivers]
    ELSE LET old == Head(remaps)[1]
             new == Head(remaps)[2]
             val == map_get(receivers, old)
         IN  IF ~val.some THEN [ok |-> FALSE, receivers |-> <<>>]
             ELSE RemapLoop(receivers, Tail(remaps), map_insert(new_receivers, new, val.v))

\* SplitConfig::remap_receivers_to_routers(remaps)
remap_receivers_to_routers(receivers, remaps) == RemapLoop(receivers, remaps, <<>>)

\* remap_splits(splits, (party_a_receiver, party_a_router), (party_b_receiver, party_b_router))
remap_splits(splits, party_a, party_b) ==
    LET remap_vector == <<party_a, party_b>>
        remapped == [denom \in DOMAIN splits |-> remap_receivers_to_routers(splits[denom], remap_vector)]
    IN  [ok |-> \A denom \in DOMAIN splits : remapped[denom].ok,
         splits |-> [denom \in DOMAIN splits |-> remapped[denom].receivers]]

\* the receivers a split names before the remapping, in key order
OldReceiverOrder == <<OTHER_ADDR, PARTY_A_ADDR, PARTY_B_ADDR>>

\* every SplitConfig over one, two or three of the old receivers
OldSplitConfigs ==
    { LET present == SelectSeq(OldReceiverOrder, LAMBDA a : a \in DOMAIN shares)
      IN  [i \in 1..Len(present) |-> [addr |-> present[i], share |-> shares[present[i]]]] :
        shares \in UNION { [rs -> 0..ONE] : rs \in (SUBSET {OTHER_ADDR, PARTY_A_ADDR, PARTY_B_ADDR}) \ {{}} } }

NewAddresses == {PARTY_A_ROUTER, PARTY_B_ROUTER, TODO_ROUTER}

\* the lists of at most two (old, new) pairs
RemapVectors ==
    LET pairs == {<<old, new>> : old \in {OTHER_ADDR, PARTY_A_ADDR, PARTY_B_ADDR}, new \in NewAddresses}
    IN  {<<>>} \cup {<<p>> : p \in pairs} \cup {<<p, q>> : p \in pairs, q \in pairs}

RemapInit ==
    /\ storage \in {[contract |-> "split-config", receivers |-> s] : s \in OldSplitConfigs}
    /\ block = InitialBlock
    /\ bal = [d \in Denoms |-> 0]
    /\ wallet = [d \in Denoms |-> 0]
    /\ pool = [d \in Denoms |-> 0]
    /\ pending = <<>>
    /\ last = [op |-> "none", sender |-> NO_ADDR, err |-> "Ok",
               was |-> "split-config", ws |-> "None", arg |-> <<>>]
    /\ msgs = <<>>

\* remap_receivers_to_routers(remaps) is called on the split
RemapReceiversToRouters ==
    \E remaps \in RemapVectors :
        LET r == remap_receivers_to_routers(storage.receivers, remaps)
        IN  /\ last' = [op |-> "remap_receivers_to_routers", sender |-> NO_ADDR,
                        err |-> IF r.ok THEN "Ok" ELSE "NotFound",
                        was |-> "split-config", ws |-> "None",
                        arg |-> [remaps |-> remaps, result |-> r.receivers]]
            /\ msgs' = <<>>
            /\ UNCHANGED <<storage, block, bal, wallet, pool, pending>>

\* a covenant remaps the split with its parties' receiver and router addresses
RemapSplits ==
    \E party_a_router \in NewAddresses, party_b_router \in NewAddresses :
        LET remaps == <<<<PARTY_A_ADDR, party_a_router>>, <<PARTY_B_ADDR, party_b_router>>>>
            r == remap_splits((DENOM_A :> storage.receivers), remaps[1], remaps[2])
        IN  /\ last' = [op |-> "remap_splits", sender |-> NO_ADDR,
                        err |-> IF r.ok THEN "Ok" ELSE "NotFound",
                        was |-> "split-config", ws |-> "None",
                        arg |-> [remaps |-> remaps, result |-> r.splits[DENOM_A]]]
            /\ msgs' = <<>>
            /\ UNCHANGED <<storage, block, bal, wallet, pool, pending>>

RemapNext ==
    \/ RemapReceiversToRouters
    \/ RemapSplits

RemapSpec == RemapInit /\ [][RemapNext]_vars

\* ---------------------------------------------------------- the clock
\* what the handlers of one round burn and return, subscriber by subscriber
\* what the handlers of one round burn: all are cheap, or one of them takes MaxGas
HandlerCosts(n) == {[i \in 1..n |-> IF i = heavy THEN MaxGas ELSE 1] : heavy \in 0..n}

\* whether each handler of one round succeeds: all do, or one of them fails
HandlerResults(n) == {[i \in 1..n |-> i # failing] : failing \in 0..n}

ClockInit ==
    /\ \E paused \in BOOLEAN, tick_max_gas \in {MaxGas, 2 * MaxGas} :
          storage = clock_instantiate(ClockWhitelist, tick_max_gas, paused)
    /\ block = InitialBlock
    /\ bal = [d \in Denoms |-> 0]
    /\ wallet = [d \in Denoms |-> 0]
    /\ pool = [d \in Denoms |-> 0]
    /\ pending = <<>>
    /\ last = [op |-> "Instantiate", sender |-> NO_ADDR, err |-> "Ok", was |-> "clock",
               ws |-> "None", arg |-> <<>>, ticked |-> <<>>]
    /\ msgs = <<>>

\* one call of the clock; arg is the queue the call found
ClockRun(op, sender, r, ticked) ==
    /\ storage' = IF r.err = "Ok" THEN r.st ELSE storage
    /\ msgs' = r.msgs
    /\ last' = [op |-> op, sender |-> sender, err |-> r.err, was |-> "clock", ws |-> "None",
                arg |-> storage.queue, ticked |-> ticked]
    /\ UNCHANGED <<block, bal, wallet, pool, pending>>

ClockEnqueue ==
    \E sender \in ClockWhitelist \cup {OTHER_ADDR} :
        ClockRun("Enqueue", sender, clock_enqueue(storage, sender), <<>>)

ClockDequeue ==
    \E sender \in ClockWhitelist \cup {OTHER_ADDR} :
        ClockRun("Dequeue", sender, clock_dequeue(storage, sender), <<>>)

ClockTick ==
    \E costs \in HandlerCosts(Len(storage.queue)), results \in HandlerResults(Len(storage.queue)) :
        LET r == clock_tick(storage, costs, results)
        IN  ClockRun("Tick", OTHER_ADDR, r, r.ticked)

ClockNext ==
    \/ ClockEnqueue
    \/ ClockDequeue
    \/ ClockTick

ClockSpec == ClockInit /\ [][ClockNext]_vars

\* the clock is ticked again and again
ClockFairSpec == ClockSpec /\ WF_vars(ClockTick)

\* ------------------------------------------------- the liquid pooler
\* the pooler is instantiated with a pool ratio of one expected, exactly or
\* within a half, and single-side limits of one of each asset
PoolerInstantiateMsgs ==
    {[clock_address |-> CLOCK_ADDR, pool_address |-> POOL_ADDR, pair_type |-> "xyk",
      expected_pool_ratio |-> ONE, acceptable_pool_ratio_delta |-> delta,
      single_side_lp_limits |-> [asset_a_limit |-> limit, asset_b_limit |-> limit]] :
        delta \in {0, ONE \div 2}, limit \in {1}}

\* the update the pooler is migrated with: the holder's address
PoolerMigrateMsgs ==
    {[clock_addr |-> None, holder_address |-> Some(HOLDER_ADDR), lp_config |-> None]}

\* what the pool may hold of each asset when it is queried
PoolReserves == 0..(MaxBal + 1)

\* the pooler after instantiation; funds is what the wallet that will fund it
\* holds of each asset
PoolerStart(funds) ==
    /\ storage \in {pooler_instantiate(msg).st : msg \in PoolerInstantiateMsgs}
    /\ block = InitialBlock
    /\ bal = [d \in Denoms |-> 0]
    /\ wallet = [d \in Denoms |-> IF d \in {DENOM_A, DENOM_B} THEN funds ELSE 0]
    /\ pool = [d \in Denoms |-> 0]
    /\ pending = <<>>
    /\ last = [op |-> "Instantiate", sender |-> NO_ADDR, err |-> "Ok",
               was |-> "astroport-liquid-pooler", ws |-> "None", arg |-> <<>>]
    /\ msgs = <<>>

PoolerInit == PoolerStart(MaxBal + 1)

\* one call of the pooler; the coins a ProvideLiquidity message is funded with
\* go from the pooler's balance to the pool, and the call fails as a whole if
\* they exceed the balance
PoolerRun(op, sender, arg, r) ==
    LET out == [d \in Denoms |-> IF r.msgs = <<>> THEN 0 ELSE CoinsAmount(r.msgs[1].coins, d)]
        bank_ok == \A d \in Denoms : out[d] <= bal[d]
        ok == r.err = "Ok" /\ bank_ok
    IN  /\ storage' = IF ok THEN r.st ELSE storage
        /\ bal' = IF ok THEN [d \in Denoms |-> bal[d] - out[d]] ELSE bal
        /\ last' = [op |-> op, sender |-> sender,
                    err |-> IF r.err # "Ok" THEN r.err ELSE IF bank_ok THEN "Ok" ELSE "InsufficientFunds",
                    was |-> "astroport-liquid-pooler", ws |-> "None", arg |-> arg]
        /\ msgs' = IF ok THEN r.msgs ELSE <<>>
        /\ pool' = IF ok THEN [d \in Denoms |-> pool[d] + out[d]] ELSE pool
        /\ UNCHANGED <<block, wallet, pending>>

\* one coin of an asset reaches the pooler from the wallet that funds it
PoolerFund ==
    \E d \in {DENOM_A, DENOM_B} :
        /\ wallet[d] > 0
        /\ bal[d] <= MaxBal
        /\ wallet' = [wallet EXCEPT ![d] = @ - 1]
        /\ bal' = [bal EXCEPT ![d] = @ + 1]
        /\ last' = [op |-> "Fund", sender |-> NO_ADDR, err |-> "Ok",
                    was |-> "astroport-liquid-pooler", ws |-> "None", arg |-> d]
        /\ msgs' = <<>>
        /\ UNCHANGED <<storage, block, pool, pending>>

PoolerMigrate ==
    \E msg \in PoolerMigrateMsgs :
        PoolerRun("Migrate", NO_ADDR, msg, pooler_migrate(storage, msg))

\* Tick, with the pair type and the reserves the pool answers the queries with
PoolerTickBy(senders, pair_types, reserves) ==
    \E sender \in senders, pair_type \in pair_types,
       pool_token_a_bal \in reserves, pool_token_b_bal \in reserves :
        PoolerRun("Tick", sender,
                  [pair_type |-> pair_type, pool_token_a_bal |-> pool_token_a_bal,
                   pool_token_b_bal |-> pool_token_b_bal],
                  pooler_try_tick(storage, sender, bal[DENOM_A], bal[DENOM_B],
                                  pair_type, pool_token_a_bal, pool_token_b_bal))

PoolerTick == PoolerTickBy({CLOCK_ADDR, OTHER_ADDR}, PairTypes, PoolReserves)

PoolerNext ==
    \/ PoolerFund
    \/ PoolerMigrate
    \/ PoolerTick

PoolerSpec == PoolerInit /\ [][PoolerNext]_vars

\* ------------------------------------- the liquid pooler's ledger
\* the pooler is funded until the provided amounts reach Uint128::MAX, ticked
\* by the clock on pools of one or two coins of each asset
PoolerLedgerInit == PoolerStart(Uint128MAX + 1)

PoolerLedgerTick == PoolerTickBy({CLOCK_ADDR}, PairTypes, 1..2)

PoolerLedgerNext ==
    \/ PoolerFund
    \/ PoolerMigrate
    \/ PoolerLedgerTick

PoolerLedgerSpec == PoolerLedgerInit /\ [][PoolerLedgerNext]_vars

\* ------------------------------------------------------------- claims
\* the block is at or past an expiry: its exact height or time included
Passed(cfg) ==
    \/ cfg.kind = "Block" /\ block.height >= cfg.at
    \/ cfg.kind = "Time" /\ block.time >= cfg.at

WithdrawPresent == storage.withdraw_state.kind # "None"

AllocA == storage.covenant_config.party_a.allocation

AllocB == storage.covenant_config.party_b.allocation

ByClock == last'.op = "Tick" /\ last'.sender = CLOCK_ADDR

Rejected == last'.err # "Ok" /\ storage' = storage /\ pending' = pending
            /\ bal' = bal /\ pool' = pool /\ msgs' = <<>>

\* C1 (as stated): at most one withdraw request is unanswered, and Claim,
\* Ragequit and EmergencyWithdraw are each rejected with WithdrawAlreadyStarted
\* whenever a WithdrawState is present, changing nothing
C1_Original ==
    /\ [](Len(pending) <= 1)
    /\ [][ (WithdrawPresent /\ last'.op \in {"Claim", "Ragequit", "EmergencyWithdraw"})
             => (last'.err = "WithdrawAlreadyStarted" /\ Rejected) ]_vars

\* C1 (amended): at most one withdraw request is unanswered; while a
\* WithdrawState is present Claim and EmergencyWithdraw are rejected with
\* WithdrawAlreadyStarted and Ragequit is rejected with RagequitDisabled when
\* ragequit is disabled, NotActive when the state is not Active, and
\* WithdrawAlreadyStarted otherwise; the rejected call changes nothing
C1_AtMostOneWithdrawInFlight ==
    /\ [](Len(pending) <= 1)
    /\ [][ (WithdrawPresent /\ last'.op \in {"Claim", "EmergencyWithdraw"})
             => (last'.err = "WithdrawAlreadyStarted" /\ Rejected) ]_vars
    /\ [][ (WithdrawPresent /\ last'.op = "Ragequit")
             => /\ Rejected
                /\ last'.err = IF ~storage.ragequit_config.enabled THEN "RagequitDisabled"
                               ELSE IF storage.contract_state # "Active" THEN "NotActive"
                               ELSE "WithdrawAlreadyStarted" ]_vars

\* a ragequit is in flight and each of the three operations has been turned down
\* with WithdrawAlreadyStarted: here, the emergency committee's
C1_Witness ==
    /\ storage.withdraw_state.kind = "ProcessingRagequit"
    /\ Len(pending) = 1
    /\ last.op = "EmergencyWithdraw"
    /\ last.sender = COMMITTEE_ADDR
    /\ last.err = "WithdrawAlreadyStarted"

\* C2: WithdrawState is present only while a withdraw request is unanswered, and
\* is absent once a Distribute has been handled, whatever the variant
C2_WithdrawStateOnlyWhilePending ==
    /\ [](WithdrawPresent => pending # <<>>)
    /\ [][ (last'.op = "Distribute" /\ last'.err = "Ok")
             => storage'.withdraw_state.kind = "None" ]_vars

\* C3: the allocations sum to zero or to one; they sum to zero only in Complete;
\* an accepted Distribute leaves (0,1) or (1,0) when the holder goes on and
\* (0,0) when it completes
C3_AllocationsSumToZeroOrOne ==
    /\ [](AllocA + AllocB \in {0, ONE})
    /\ [](AllocA + AllocB = 0 => storage.contract_state = "Complete")
    /\ [][ (last'.op = "Distribute" /\ last'.err = "Ok")
             => IF storage'.contract_state = "Complete"
                THEN AllocA' = 0 /\ AllocB' = 0
                ELSE /\ {AllocA', AllocB'} = {0, ONE}
                     /\ storage.covenant_config.covenant_type = "Share" ]_vars

\* the first Share-mode ragequit has been distributed: its party holds nothing,
\* the counterparty the whole position
C3_Witness ==
    /\ last.op = "Distribute"
    /\ last.err = "Ok"
    /\ storage.contract_state = "Ragequit"
    /\ AllocA = 0
    /\ AllocB = ONE

\* C4: Complete is terminal
C4_CompleteIsTerminal ==
    [][ storage.contract_state = "Complete" => storage'.contract_state = "Complete" ]_vars

\* a completed holder has handled the pooler's Distribute for an emergency
\* withdrawal requested after completion
C4_Witness ==
    /\ last.was = "Complete"
    /\ last.op = "Distribute"
    /\ last.err = "Ok"
    /\ storage.contract_state = "Complete"

\* C5: a Tick in Instantiated before the deposit deadline activates the holder
\* and forwards both whole balances to the pooler iff both balances cover the
\* contributions; otherwise it fails with InsufficientDeposits and changes nothing
C5_DepositIffBothCovered ==
    [][ (ByClock /\ storage.contract_state = "Instantiated" /\ ~Passed(storage.deposit_deadline))
          => LET a == bal[DENOM_A]
                 b == bal[DENOM_B]
                 covered == /\ a >= storage.covenant_config.party_a.contribution.amount
                            /\ b >= storage.covenant_config.party_b.contribution.amount
             IN  IF covered
                 THEN /\ last'.err = "Ok"
                      /\ storage' = [storage EXCEPT !.contract_state = "Active"]
                      /\ msgs' = <<BankSend(NEXT_CONTRACT, <<Coin(DENOM_A, a), Coin(DENOM_B, b)>>)>>
                      /\ bal'[DENOM_A] = 0 /\ bal'[DENOM_B] = 0
                      /\ pool'[DENOM_A] = pool[DENOM_A] + a
                      /\ pool'[DENOM_B] = pool[DENOM_B] + b
                 ELSE last'.err = "InsufficientDeposits" /\ Rejected ]_vars

\* the holder became Active by a Tick that forwarded more than party A's
\* contribution: the whole balance
C5_Witness ==
    /\ last.op = "Tick"
    /\ last.was = "Instantiated"
    /\ storage.contract_state = "Active"
    /\ pool[DENOM_A] > storage.covenant_config.party_a.contribution.amount
    /\ bal[DENOM_A] = 0

\* C6: a Tick in Instantiated at or after the deposit deadline completes the
\* holder and forwards nothing, whatever was deposited; the holder never becomes
\* Active once the deadline has passed
C6_DeadlineCompletesWithoutForwarding ==
    /\ [][ (ByClock /\ storage.contract_state = "Instantiated" /\ Passed(storage.deposit_deadline))
             => /\ last'.err = "Ok"
                /\ storage' = [storage EXCEPT !.contract_state = "Complete"]
                /\ msgs' = <<>>
                /\ bal' = bal /\ pool' = pool /\ pending' = pending ]_vars
    /\ [][ (storage.contract_state # "Active" /\ storage'.contract_state = "Active")
             => ~Passed(storage.deposit_deadline) ]_vars

\* the Tick came at the exact deadline height with both contributions present
C6_Witness ==
    /\ last.op = "Tick"
    /\ last.was = "Instantiated"
    /\ storage.contract_state = "Complete"
    /\ storage.deposit_deadline.kind = "Block"
    /\ block.height = storage.deposit_deadline.at
    /\ bal[DENOM_A] >= storage.covenant_config.party_a.contribution.amount
    /\ bal[DENOM_B] >= storage.covenant_config.party_b.contribution.amount

\* C7: a Tick in Complete sends the whole balance of each party's contribution
\* denom to that party's router and to nobody else, nothing when both are zero,
\* and changes no persisted state; a second Tick right after it emits nothing
\* and changes nothing
C7_RefundToOwnRouter ==
    /\ [][ (ByClock /\ storage.contract_state = "Complete")
             => /\ last'.err = "Ok"
                /\ storage' = storage
                /\ pending' = pending /\ pool' = pool
                /\ BankOutTo(msgs', PARTY_A_ROUTER, DENOM_A) = bal[DENOM_A]
                /\ BankOutTo(msgs', PARTY_B_ROUTER, DENOM_B) = bal[DENOM_B]
                /\ BankOut(msgs', DENOM_A) = bal[DENOM_A]
                /\ BankOut(msgs', DENOM_B) = bal[DENOM_B]
                /\ BankOut(msgs', DENOM_X) = 0
                /\ Len(msgs') = (IF bal[DENOM_A] = 0 THEN 0 ELSE 1) + (IF bal[DENOM_B] = 0 THEN 0 ELSE 1)
                /\ bal'[DENOM_A] = 0 /\ bal'[DENOM_B] = 0 /\ bal'[DENOM_X] = bal[DENOM_X] ]_vars
    /\ [][ (last.op = "Tick" /\ last.sender = CLOCK_ADDR /\ last.was = "Complete" /\ ByClock)
             => msgs' = <<>> /\ storage' = storage /\ bal' = bal ]_vars

\* a Tick in Complete has refunded both parties at once
C7_Witness ==
    /\ last.op = "Tick"
    /\ last.was = "Complete"
    /\ Len(msgs) = 2
    /\ msgs[1].to = PARTY_A_ROUTER
    /\ msgs[2].to = PARTY_B_ROUTER

\* C8: a Tick in Active moves the holder to Expired exactly when the block is at
\* or past the lockup, and otherwise changes nothing; it never emits a message;
\* no other step makes the holder Expired
C8_ExpiredExactlyAtLockup ==
    /\ [][ (ByClock /\ storage.contract_state = "Active")
             => /\ last'.err = "Ok"
                /\ msgs' = <<>>
                /\ bal' = bal /\ pool' = pool /\ pending' = pending
                /\ storage' = IF Passed(storage.lockup_config)
                              THEN [storage EXCEPT !.contract_state = "Expired"]
                              ELSE storage ]_vars
    /\ [][ (storage.contract_state # "Expired" /\ storage'.contract_state = "Expired")
             => (ByClock /\ storage.contract_state = "Active" /\ Passed(storage.lockup_config)) ]_vars

\* the Tick came at the exact lockup time
C8_Witness ==
    /\ last.op = "Tick"
    /\ last.was = "Active"
    /\ storage.contract_state = "Expired"
    /\ storage.lockup_config.kind = "Time"
    /\ block.time = storage.lockup_config.at

\* C9: Ragequit is accepted iff ragequit is enabled, the state is Active, no
\* withdrawal is in flight, the lockup has not passed and the sender is a party;
\* each rejection names a condition that fails and changes nothing; at the lockup
\* height in Active it is Expired, after a distributed ragequit it is NotActive
C9_RagequitPreconditions ==
    [][ last'.op = "Ragequit"
          => LET enabled == storage.ragequit_config.enabled
                 active == storage.contract_state = "Active"
                 idle == ~WithdrawPresent
                 locked == ~Passed(storage.lockup_config)
                 party == last'.sender \in {storage.covenant_config.party_a.host_addr,
                                            storage.covenant_config.party_b.host_addr}
                 e == last'.err
             IN  /\ e \in {"Ok", "RagequitDisabled", "NotActive", "WithdrawAlreadyStarted",
                           "Expired", "Unauthorized"}
                 /\ (e = "Ok") <=> (enabled /\ active /\ idle /\ locked /\ party)
                 /\ e # "Ok" => Rejected
                 /\ e = "RagequitDisabled" => ~enabled
                 /\ e = "NotActive" => ~active
                 /\ e = "WithdrawAlreadyStarted" => ~idle
                 /\ e = "Expired" => ~locked
                 /\ e = "Unauthorized" => ~party
                 /\ (enabled /\ active /\ idle /\ ~locked) => e = "Expired"
                 /\ (enabled /\ storage.ragequit_config.state.some) => e = "NotActive" ]_vars

\* a party's Ragequit at the exact lockup height, the holder still Active, was
\* turned down with Expired
C9_Witness ==
    /\ last.op = "Ragequit"
    /\ last.sender = PARTY_A_ADDR
    /\ last.err = "Expired"
    /\ storage.contract_state = "Active"
    /\ storage.lockup_config.kind = "Block"
    /\ block.height = storage.lockup_config.at

\* C10: an accepted Claim either starts a withdrawal, and then the state is
\* Expired or Ragequit, or finds both allocations zero and completes the holder
\* without a withdraw request; a Claim in Instantiated or Active is rejected,
\* sends no request and sets no WithdrawState
C10_ClaimOnlyWhenExpiredOrRagequit ==
    /\ [][ (last'.op = "Claim" /\ last'.err = "Ok")
             => \/ /\ storage.contract_state \in {"Expired", "Ragequit"}
                   /\ ~WithdrawPresent
                   /\ storage' = [storage EXCEPT !.withdraw_state = Processing(last'.sender)]
                   /\ Len(msgs') = 1 /\ msgs'[1].type = "withdraw"
                   /\ pending' = Append(pending, msgs'[1].percentage)
                \/ /\ AllocA = 0 /\ AllocB = 0
                   /\ storage' = [storage EXCEPT !.contract_state = "Complete"]
                   /\ pending' = pending
                   /\ msgs' = <<DequeueMsg(CLOCK_ADDR)>> ]_vars
    /\ [][ (last'.op = "Claim" /\ storage.contract_state \in {"Instantiated", "Active"})
             => Rejected ]_vars

\* a party claimed after the lockup had passed but before a Tick had moved the
\* holder to Expired, and was turned down
C10_Witness ==
    /\ last.op = "Claim"
    /\ last.sender = PARTY_B_ADDR
    /\ last.err = "ClaimError"
    /\ storage.contract_state = "Active"
    /\ Passed(storage.lockup_config)
    /\ ~WithdrawPresent

\* what the pooler handed over with the callback of this step
Received(d) == pool[d] - pool'[d]

Distributed(kinds, ctype) ==
    /\ last'.op = "Distribute"
    /\ last'.err = "Ok"
    /\ storage.withdraw_state.kind \in kinds
    /\ storage.covenant_config.covenant_type = ctype

ClaimerIsA == storage.withdraw_state.claimer_addr = storage.covenant_config.party_a.host_addr

\* the share of a receiver in a split
RECURSIVE ShareIn(_, _)
ShareIn(split, addr) ==
    IF split = <<>> THEN 0
    ELSE (IF Head(split).addr = addr THEN Head(split).share ELSE 0) + ShareIn(Tail(split), addr)

\* C11: Distribute for Processing in Share mode sends every received coin in
\* full to the claimer's router and to nobody else, zeroes the claimer's
\* allocation, and either sets a non-zero counterparty allocation to one and
\* keeps the contract state, or, the counterparty's being zero, completes
C11_ShareClaimDistribution ==
    [][ Distributed({"Processing"}, "Share")
          => LET cfg == storage.covenant_config
                 router == IF ClaimerIsA THEN cfg.party_a.router ELSE cfg.party_b.router
                 theirs == IF ClaimerIsA THEN AllocB ELSE AllocA
                 mine2 == IF ClaimerIsA THEN AllocA' ELSE AllocB'
                 theirs2 == IF ClaimerIsA THEN AllocB' ELSE AllocA'
             IN  /\ \A d \in Denoms : /\ BankOutTo(msgs', router, d) = Received(d)
                                      /\ BankOut(msgs', d) = Received(d)
                 /\ bal' = bal
                 /\ mine2 = 0
                 /\ storage'.withdraw_state = NoWithdraw
                 /\ IF theirs # 0
                    THEN theirs2 = ONE /\ storage'.contract_state = storage.contract_state
                    ELSE theirs2 = 0 /\ storage'.contract_state = "Complete" ]_vars

\* the second of two Share-mode claims has been distributed: party B's router
\* got the coins, both allocations are zero, the holder is Complete
C11_Witness ==
    /\ storage.covenant_config.covenant_type = "Share"
    /\ last.op = "Distribute" /\ last.err = "Ok"
    /\ last.ws = "Processing" /\ last.was = "Expired"
    /\ storage.contract_state = "Complete"
    /\ AllocA = 0 /\ AllocB = 0
    /\ BankOutTo(msgs, PARTY_B_ROUTER, DENOM_A) > 0
    /\ BankOutTo(msgs, PARTY_A_ROUTER, DENOM_A) = 0

\* C12: in Side mode the Distribute for a claim pays each router its share of
\* every received coin under that denom's explicit split, rounded down, zeroes
\* both allocations and completes the holder; for a ragequit the shares are the
\* penalty-adjusted ones; a Side-mode holder is never in the Ragequit state
C12_SideDistributionCompletes ==
    /\ [][ Distributed({"Processing", "ProcessingRagequit"}, "Side")
             => LET cfg == storage.covenant_config
                    ws == storage.withdraw_state
                    pen == IF ws.kind = "ProcessingRagequit" THEN ws.penalty ELSE 0
                    share_a(d) == ShareIn(storage.denom_splits.explicit_splits[d], cfg.party_a.router)
                                  + (IF ClaimerIsA THEN 0 - pen ELSE pen)
                    share_b(d) == ShareIn(storage.denom_splits.explicit_splits[d], cfg.party_b.router)
                                  + (IF ClaimerIsA THEN pen ELSE 0 - pen)
                IN  /\ \A d \in {DENOM_A, DENOM_B} :
                          /\ BankOutTo(msgs', cfg.party_a.router, d) = (Received(d) * share_a(d)) \div ONE
                          /\ BankOutTo(msgs', cfg.party_b.router, d) = (Received(d) * share_b(d)) \div ONE
                          /\ BankOut(msgs', d) = BankOutTo(msgs', cfg.party_a.router, d)
                                                 + BankOutTo(msgs', cfg.party_b.router, d)
                    /\ Received(DENOM_X) = 0 /\ BankOut(msgs', DENOM_X) = 0
                    /\ AllocA' = 0 /\ AllocB' = 0
                    /\ storage'.contract_state = "Complete"
                    /\ storage'.withdraw_state = NoWithdraw ]_vars
    /\ [](storage.covenant_config.covenant_type = "Side" => storage.contract_state # "Ragequit")

\* party A's Side-mode ragequit has been distributed: the holder is Complete and
\* party B's router got more of denom A than party A's
C12_Witness ==
    /\ storage.covenant_config.covenant_type = "Side"
    /\ last.op = "Distribute" /\ last.err = "Ok"
    /\ last.ws = "ProcessingRagequit" /\ last.was = "Active"
    /\ storage.contract_state = "Complete"
    /\ storage.ragequit_config.state.some
    /\ storage.ragequit_config.state.rq_party.host_addr = PARTY_A_ADDR
    /\ BankOutTo(msgs, PARTY_B_ROUTER, DENOM_A) > BankOutTo(msgs, PARTY_A_ROUTER, DENOM_A)

\* C13: Distribute for ProcessingRagequit in Share mode saves the Ragequit
\* state, zeroes the ragequitting party's allocation, sets the counterparty's to
\* one and records the party and the received coins in the ragequit config; the
\* Distribute of the counterparty's later Claim completes with both zero
C13_ShareRagequitDistribution ==
    /\ [][ Distributed({"ProcessingRagequit"}, "Share")
             => LET cfg == storage.covenant_config
                    rq == IF ClaimerIsA THEN cfg.party_a ELSE cfg.party_b
                    state2 == storage'.ragequit_config.state
                IN  /\ storage'.contract_state = "Ragequit"
                    /\ (IF ClaimerIsA THEN AllocA' ELSE AllocB') = 0
                    /\ (IF ClaimerIsA THEN AllocB' ELSE AllocA') = ONE
                    /\ state2.some
                    /\ state2.rq_party = rq
                    /\ \A d \in Denoms : CoinsAmount(state2.coins, d) = Received(d)
                    /\ storage'.withdraw_state = NoWithdraw ]_vars
    /\ [][ (Distributed({"Processing"}, "Share") /\ storage.contract_state = "Ragequit"
            /\ (IF ClaimerIsA THEN AllocA ELSE AllocB) = ONE)
             => /\ storage'.contract_state = "Complete"
                /\ AllocA' = 0 /\ AllocB' = 0
                /\ storage'.ragequit_config = storage.ragequit_config ]_vars

\* after party A's ragequit the counterparty claimed and was paid: Complete
C13_Witness ==
    /\ last.op = "Distribute" /\ last.err = "Ok"
    /\ last.ws = "Processing" /\ last.was = "Ragequit"
    /\ storage.contract_state = "Complete"
    /\ storage.ragequit_config.state.some
    /\ storage.ragequit_config.state.rq_party.host_addr = PARTY_A_ADDR
    /\ AllocA = 0 /\ AllocB = 0
    /\ BankOutTo(msgs, PARTY_B_ROUTER, DENOM_A) > 0

SenderIsA == last'.sender = storage.covenant_config.party_a.host_addr

SenderIsParty ==
    last'.sender \in {storage.covenant_config.party_a.host_addr,
                      storage.covenant_config.party_b.host_addr}

Requested(op) ==
    /\ last'.op = op /\ last'.err = "Ok"
    /\ Len(msgs') = 1 /\ msgs'[1].type = "withdraw"

\* C14: the percentage of a withdraw request is, for Claim, the claimer's
\* allocation in Share mode and None in Side mode; for Ragequit, the allocation
\* minus the penalty in Share mode and None in Side mode; for EmergencyWithdraw,
\* None; a Share-mode percentage is within [0,1], and is 1 for the claimer whose
\* counterparty has claimed already
C14_WithdrawPercentage ==
    /\ [][ Requested("Claim")
             => msgs'[1].percentage =
                   IF storage.covenant_config.covenant_type = "Share"
                   THEN [some |-> TRUE, v |-> IF SenderIsA THEN AllocA ELSE AllocB]
                   ELSE [some |-> FALSE, v |-> 0] ]_vars
    /\ [][ Requested("Ragequit")
             => msgs'[1].percentage =
                   IF storage.covenant_config.covenant_type = "Share"
                   THEN [some |-> TRUE, v |-> (IF SenderIsA THEN AllocA ELSE AllocB)
                                              - storage.ragequit_config.penalty]
                   ELSE [some |-> FALSE, v |-> 0] ]_vars
    /\ [][ Requested("EmergencyWithdraw") => msgs'[1].percentage = [some |-> FALSE, v |-> 0] ]_vars
    /\ [](\A i \in 1..Len(pending) : pending[i].some => (0 <= pending[i].v /\ pending[i].v <= ONE))
    /\ [][ (Requested("Claim") /\ storage.covenant_config.covenant_type = "Share"
            /\ (IF SenderIsA THEN AllocB ELSE AllocA) = 0)
             => msgs'[1].percentage = [some |-> TRUE, v |-> ONE] ]_vars

\* in Share mode the second claimer, party B, has requested the whole position
C14_Witness ==
    /\ storage.covenant_config.covenant_type = "Share"
    /\ last.op = "Claim" /\ last.err = "Ok" /\ last.sender = PARTY_B_ADDR
    /\ AllocA = 0
    /\ msgs = <<[type |-> "withdraw", to |-> NEXT_CONTRACT, percentage |-> [some |-> TRUE, v |-> ONE]]>>
    /\ pending = <<[some |-> TRUE, v |-> ONE]>>

\* C15: EmergencyWithdraw is accepted, in any contract state, iff the committee
\* sends it and no withdrawal is in flight; it saves Emergency and requests a
\* full withdrawal; its Distribute pays each router its share under the denom's
\* explicit split whatever the covenant type, zeroes both allocations and
\* completes the holder
C15_EmergencyWithdrawal ==
    /\ [][ last'.op = "EmergencyWithdraw"
             => /\ (last'.err = "Ok") <=> (/\ storage.emergency_committee_addr # NO_ADDR
                                          /\ last'.sender = storage.emergency_committee_addr
                                          /\ ~WithdrawPresent)
                /\ last'.err = "Ok"
                     => /\ storage' = [storage EXCEPT !.withdraw_state = Emergency]
                        /\ Len(msgs') = 1 /\ msgs'[1].type = "withdraw"
                        /\ msgs'[1].to = storage.liquid_pooler_address
                        /\ ~msgs'[1].percentage.some
                        /\ pending' = Append(pending, msgs'[1].percentage) ]_vars
    /\ [][ (last'.op = "Distribute" /\ last'.err = "Ok" /\ storage.withdraw_state.kind = "Emergency")
             => LET cfg == storage.covenant_config
                IN  /\ \A d \in {DENOM_A, DENOM_B} :
                          /\ BankOutTo(msgs', cfg.party_a.router, d)
                               = (Received(d) * ShareIn(storage.denom_splits.explicit_splits[d],
                                                        cfg.party_a.router)) \div ONE
                          /\ BankOutTo(msgs', cfg.party_b.router, d)
                               = (Received(d) * ShareIn(storage.denom_splits.explicit_splits[d],
                                                        cfg.party_b.router)) \div ONE
                          /\ BankOut(msgs', d) = BankOutTo(msgs', cfg.party_a.router, d)
                                                 + BankOutTo(msgs', cfg.party_b.router, d)
                    /\ BankOut(msgs', DENOM_X) = 0
                    /\ AllocA' = 0 /\ AllocB' = 0
                    /\ storage'.contract_state = "Complete" ]_vars

\* a Share-mode holder that had expired has distributed an emergency withdrawal
\* to both routers
C15_Witness ==
    /\ storage.covenant_config.covenant_type = "Share"
    /\ last.op = "Distribute" /\ last.err = "Ok"
    /\ last.ws = "Emergency" /\ last.was = "Expired"
    /\ storage.contract_state = "Complete"
    /\ BankOutTo(msgs, PARTY_A_ROUTER, DENOM_A) > 0
    /\ BankOutTo(msgs, PARTY_B_ROUTER, DENOM_A) > 0

\* C16: a call from anybody but the entry point's principal is rejected and
\* changes nothing: Tick but from the clock, Distribute and WithdrawFailed but
\* from the pooler, Claim and Ragequit but from a party, EmergencyWithdraw but
\* from the committee, or when no committee is configured
C16_OnlyThePrincipal ==
    /\ [][ (last'.op = "Tick" /\ last'.sender # storage.clock_address) => Rejected ]_vars
    /\ [][ (last'.op \in {"Distribute", "WithdrawFailed"}
            /\ last'.sender # storage.liquid_pooler_address) => Rejected ]_vars
    /\ [][ (last'.op \in {"Claim", "Ragequit"} /\ ~SenderIsParty) => Rejected ]_vars
    /\ [][ (last'.op = "EmergencyWithdraw"
            /\ (\/ last'.sender # storage.emergency_committee_addr
                \/ storage.emergency_committee_addr = NO_ADDR)) => Rejected ]_vars

\* somebody else's Tick was turned down while both deposits were waiting
C16_Witness ==
    /\ last.op = "Tick" /\ last.sender = OTHER_ADDR /\ last.err = "NotClock"
    /\ storage.contract_state = "Instantiated"
    /\ bal[DENOM_A] >= 1 /\ bal[DENOM_B] >= 1

\* C17: WithdrawFailed from the pooler removes the WithdrawState and changes
\* nothing else, and emits nothing; the Claim, Ragequit or EmergencyWithdraw
\* sent right after it is accepted iff its other preconditions hold
C17_WithdrawFailedOnlyClears ==
    /\ [][ (last'.op = "WithdrawFailed" /\ last'.sender = storage.liquid_pooler_address)
             => /\ last'.err = "Ok"
                /\ storage' = [storage EXCEPT !.withdraw_state = NoWithdraw]
                /\ msgs' = <<>>
                /\ bal' = bal /\ pool' = pool ]_vars
    /\ [][ (last.op = "WithdrawFailed" /\ last.sender = storage.liquid_pooler_address)
             => /\ last'.op = "Claim"
                     => ((last'.err = "Ok")
                           <=> (/\ SenderIsParty
                                /\ \/ storage.contract_state \in {"Expired", "Ragequit"}
                                   \/ AllocA = 0 /\ AllocB = 0))
                /\ last'.op = "Ragequit"
                     => ((last'.err = "Ok")
                           <=> (/\ SenderIsParty
                                /\ storage.ragequit_config.enabled
                                /\ storage.contract_state = "Active"
                                /\ ~Passed(storage.lockup_config)))
                /\ last'.op = "EmergencyWithdraw"
                     => ((last'.err = "Ok")
                           <=> last'.sender = storage.emergency_committee_addr) ]_vars

\* a ragequit's withdrawal failed: the holder is Active again without a
\* WithdrawState, the allocations as they were
C17_Witness ==
    /\ last.op = "WithdrawFailed" /\ last.sender = NEXT_CONTRACT /\ last.err = "Ok"
    /\ last.ws = "ProcessingRagequit"
    /\ storage.contract_state = "Active"
    /\ ~WithdrawPresent
    /\ pending = <<>>
    /\ AllocA + AllocB = ONE
    /\ ~storage.ragequit_config.state.some

\* C18: a Distribute from the pooler while no WithdrawState is present is
\* rejected with WithdrawStateNotStarted and changes nothing, and every accepted
\* Distribute answers a withdraw request that was still unanswered
C18_DistributeAnswersPending ==
    /\ [][ (last'.op = "Distribute" /\ last'.sender = storage.liquid_pooler_address
            /\ ~WithdrawPresent)
             => (last'.err = "WithdrawStateNotStarted" /\ Rejected) ]_vars
    /\ [][ (last'.op = "Distribute" /\ last'.err = "Ok") => pending # <<>> ]_vars
\* amount of denom d the transfers of a response carry to one address
RECURSIVE SentTo(_, _, _)
SentTo(ms, to, d) ==
    IF ms = <<>> THEN 0
    ELSE (IF Head(ms).type \in {"bank", "ibc"} /\ Head(ms).to = to
          THEN CoinsAmount(Head(ms).coins, d) ELSE 0)
         + SentTo(Tail(ms), to, d)

\* amount of denom d the transfers of a response carry
RECURSIVE Sent(_, _)
Sent(ms, d) ==
    IF ms = <<>> THEN 0
    ELSE (IF Head(ms).type \in {"bank", "ibc"} THEN CoinsAmount(Head(ms).coins, d) ELSE 0)
         + Sent(Tail(ms), d)

\* denom d is among the denoms of the request of this step
Listed(d) == \E i \in 1..Len(last'.arg) : last'.arg[i] = d

\* every listed denom's balance goes through the split, each receiver getting
\* its share rounded down; nothing else is sent
SentThrough(split) ==
    \A d \in Denoms :
        /\ \A i \in 1..Len(split) :
              SentTo(msgs', split[i].addr, d)
                = IF Listed(d) THEN (bal[d] * split[i].share) \div ONE ELSE 0
        /\ Sent(msgs', d) = SumSeq([i \in 1..Len(split) |-> SentTo(msgs', split[i].addr, d)])

\* C19: a fallback distribution that lists a denom with a split of its own is
\* rejected whole, and nothing is sent: by the holder with
\* UnauthorizedDenomDistribution, by the native splitter and by the router with
\* an error too; otherwise the balance of every listed denom is sent through the
\* fallback split, when there is one (by the router, to its receiver)
C19_FallbackAllOrNothing ==
    /\ [][ (last'.op = "DistributeFallbackSplit" /\ last'.was = "two-party-pol-holder")
             => LET ds == storage.denom_splits
                IN  IF \E d \in DOMAIN ds.explicit_splits : Listed(d)
                    THEN last'.err = "UnauthorizedDenomDistribution" /\ Rejected
                    ELSE /\ last'.err = "Ok"
                         /\ storage' = storage
                         /\ IF ds.fallback_split.some
                            THEN SentThrough(ds.fallback_split.split)
                            ELSE msgs' = <<>> /\ bal' = bal ]_vars
    /\ [][ (last'.op = "DistributeFallback" /\ last'.was = "native-splitter")
             => IF \E d \in DOMAIN storage.split_config_map : Listed(d)
                THEN Rejected
                ELSE IF storage.fallback_split.some
                THEN /\ last'.err = "Ok"
                     /\ storage' = storage
                     /\ SentThrough(storage.fallback_split.split)
                ELSE last'.err = "no fallback split defined" /\ Rejected ]_vars
    /\ [][ (last'.op = "DistributeFallback" /\ last'.was = "interchain-router")
             => IF \E d \in storage.denoms : Listed(d)
                THEN Rejected
                ELSE /\ last'.err = "Ok"
                     /\ storage' = storage
                     /\ \A d \in Denoms :
                           /\ Sent(msgs', d) = IF Listed(d) THEN bal[d] ELSE 0
                           /\ SentTo(msgs', storage.destination_receiver_addr, d) = Sent(msgs', d) ]_vars

\* the holder turned down a request that listed a denom of the fallback split,
\* of which it holds some, before a denom with a split of its own
C19_Witness ==
    /\ last.op = "DistributeFallbackSplit"
    /\ last.was = "two-party-pol-holder"
    /\ last.err = "UnauthorizedDenomDistribution"
    /\ last.arg = <<DENOM_X, DENOM_A>>
    /\ bal[DENOM_X] > 0
    /\ storage.denom_splits.fallback_split.some

\* the shares of a split, summed
RECURSIVE SharesSum(_)
SharesSum(split) == IF split = <<>> THEN 0 ELSE Head(split).share + SharesSum(Tail(split))

\* C20: the shares of every persisted SplitConfig sum to one: the holder's
\* explicit and fallback splits, the native splitter's per-denom and fallback
\* splits, written by instantiate or by migrate
C20_PersistedSplitsSumToOne ==
    IF ContractKind(storage) = "two-party-pol-holder"
    THEN /\ \A d \in DOMAIN storage.denom_splits.explicit_splits :
               SharesSum(storage.denom_splits.explicit_splits[d]) = ONE
         /\ storage.denom_splits.fallback_split.some
               => SharesSum(storage.denom_splits.fallback_split.split) = ONE
    ELSE /\ \A d \in DOMAIN storage.split_config_map :
               SharesSum(storage.split_config_map[d]) = ONE
         /\ storage.fallback_split.some => SharesSum(storage.fallback_split.split) = ONE

\* C21: in every explicit split the holder has persisted, at instantiation or by
\* migration, every receiver is one of the two party routers and no share
\* exceeds one
C21_ExplicitReceiversAreRouters ==
    ContractKind(storage) = "two-party-pol-holder"
        => \A d \in DOMAIN storage.denom_splits.explicit_splits :
              \A i \in 1..Len(storage.denom_splits.explicit_splits[d]) :
                 /\ storage.denom_splits.explicit_splits[d][i].addr
                      \in {storage.covenant_config.party_a.router,
                           storage.covenant_config.party_b.router}
                 /\ storage.denom_splits.explicit_splits[d][i].share <= ONE

\* addr is among the receivers of a split
HasReceiver(split, addr) == \E i \in 1..Len(split) : split[i].addr = addr

\* a supplied explicit split passes the validation of the holder: both party
\* routers are receivers and their two shares sum to one
SuppliedSplitValid(msg, d) ==
    /\ HasReceiver(msg.splits[d], msg.covenant_config.party_a.router)
    /\ HasReceiver(msg.splits[d], msg.covenant_config.party_b.router)
    /\ ShareIn(msg.splits[d], msg.covenant_config.party_a.router)
         + ShareIn(msg.splits[d], msg.covenant_config.party_b.router) = ONE

\* C22: an instantiation that supplies an explicit split failing validation is
\* rejected, and after a successful instantiation explicit_splits has an entry
\* for every denom the message supplied
C22_InvalidSplitRejectsInstantiation ==
    last.op = "Instantiate"
        => /\ (\E d \in DOMAIN last.arg.splits : ~SuppliedSplitValid(last.arg, d))
                 => last.err # "Ok"
           /\ last.err = "Ok"
                 => DOMAIN storage.denom_splits.explicit_splits = DOMAIN last.arg.splits

\* an expiration has come at a block: at its exact height or time, or later
ExpiredAt(e, blk) ==
    \/ e.kind = "Block" /\ blk.height >= e.at
    \/ e.kind = "Time" /\ blk.time >= e.at

\* one expiration is height-based and the other time-based
Incomparable(e1, e2) == {e1.kind, e2.kind} = {"Block", "Time"}

\* the first expiration comes strictly before the second: Never comes after
\* every height and time, and not before Never
StrictlyBefore(e1, e2) ==
    /\ e1.kind # "None"
    /\ ~Incomparable(e1, e2)
    /\ e2.kind = "None" \/ e1.at < e2.at

C24_AllocationsAndPenalty ==
    (last.op = "Instantiate" /\ last.err = "Ok")
        => LET cfg == last.arg.covenant_config
               rq == last.arg.ragequit_config
           IN  /\ cfg.party_a.allocation + cfg.party_b.allocation = ONE
               /\ rq.enabled
                     => /\ 0 <= rq.penalty /\ rq.penalty < ONE
                        /\ rq.penalty < cfg.party_a.allocation
                        /\ rq.penalty < cfg.party_b.allocation
               /\ storage.ragequit_config.enabled
                     => /\ AllocA - storage.ragequit_config.penalty > 0
                        /\ AllocB - storage.ragequit_config.penalty > 0

\* a holder was instantiated with ragequit enabled and a penalty above zero
C24_Witness ==
    /\ last.op = "Instantiate"
    /\ last.err = "Ok"
    /\ storage.ragequit_config.enabled
    /\ storage.ragequit_config.penalty > 0

\* number of bank sends of a response that go to one address
SendsTo(ms, to) == Cardinality({i \in 1..Len(ms) : ms[i].type = "bank" /\ ms[i].to = to})

\* the call multiplies some non-zero share into more than the integer holds
Overflows(split, amount, filter_addr) ==
    /\ filter_addr = NO_ADDR
    /\ \E i \in 1..Len(split) :
          split[i].share # 0 /\ (amount * split[i].share) \div ONE > Uint128MAX

C26_NoMoreThanReceived ==
    [][ (last'.op = "Distribute" /\ last'.err = "Ok")
          => \A d \in Denoms : Sent(msgs', d) <= Received(d) ]_vars

NoDuplicates(queue) ==
    \A i, j \in 1..Len(queue) : queue[i] = queue[j] => i = j

\* C28: in every reachable clock state the queue holds no address twice and
\* only addresses of the whitelist fixed at instantiation; an Enqueue of an
\* address already queued adds no second entry, and an Enqueue while the clock
\* is paused or by an address off the whitelist fails and leaves the queue as
\* it was
C28_QueueOfDistinctWhitelisted ==
    /\ storage.whitelist = ClockWhitelist
    /\ NoDuplicates(storage.queue)
    /\ \A i \in 1..Len(storage.queue) : storage.queue[i] \in storage.whitelist
    /\ (last.op = "Enqueue" /\ Queued(last.arg, last.sender))
          => storage.queue = last.arg
    /\ (last.op = "Enqueue" /\ (storage.paused \/ last.sender \notin storage.whitelist))
          => (last.err # "Ok" /\ storage.queue = last.arg)

\* a queued subscriber enqueued itself again, behind another one
C28_Witness ==
    /\ last.op = "Enqueue"
    /\ last.err = "Ok"
    /\ Queued(last.arg, last.sender)
    /\ Len(last.arg) >= 2
    /\ last.arg[1] = last.sender

\* the addresses ticked in a round, in order
TickedAddrs(ticked) == [i \in 1..Len(ticked) |-> ticked[i].addr]

\* the queue after its first k entries went to the back
Rotated(queue, k) == SubSeq(queue, k + 1, Len(queue)) \o SubSeq(queue, 1, k)

\* where addr stands in the queue, zero if it is not queued
Position(queue, addr) ==
    IF Queued(queue, addr) THEN CHOOSE i \in 1..Len(queue) : queue[i] = addr ELSE 0

\* an accepted Tick on a queue that is not empty
RoundStep ==
    last'.op = "Tick" /\ last'.err = "Ok" /\ storage.queue # <<>>

\* a step whose round ticks addr
TickOf(addr) ==
    RoundStep /\ \E i \in 1..Len(last'.ticked) : last'.ticked[i].addr = addr

\* the last call was a round that ticked addr
JustTicked(addr) ==
    last.op = "Tick" /\ last.err = "Ok" /\ \E i \in 1..Len(last.ticked) : last.ticked[i].addr = addr

ProvidesLiquidity(ms) == \E i \in 1..Len(ms) : ms[i].type = "provide_liquidity"

\* the ratio A/B of the reserves the pool answered with lies outside the range
RatioOutside(range, reserves) ==
    /\ reserves.pool_token_b_bal # 0
    /\ ~is_within_range(range, decimal_from_ratio(reserves.pool_token_a_bal,
                                                  reserves.pool_token_b_bal))

\* C30: a pooler Tick fails, emits no ProvideLiquidity message and leaves
\* ProvidedLiquidityInfo (and the pooler's balances) unchanged whenever the
\* pool's pair type differs from the configured one, with PairTypeMismatch, or
\* the pool ratio A/B lies outside the expected range, whatever the pooler
\* holds: both assets, one of them or none
C30_MismatchOrOutOfRangeFails ==
    [][(/\ last'.op = "Tick"
        /\ \/ last'.arg.pair_type # storage.lp_config.pair_type
           \/ RatioOutside(storage.lp_config.expected_pool_ratio_range, last'.arg))
          => /\ last'.err # "Ok"
             /\ (last'.sender = CLOCK_ADDR
                 /\ last'.arg.pair_type # storage.lp_config.pair_type)
                    => last'.err = "PairTypeMismatch"
             /\ ~ProvidesLiquidity(msgs')
             /\ storage'.provided_liquidity_info = storage.provided_liquidity_info
             /\ storage' = storage
             /\ bal' = bal]_vars

\* the clock ticked a pooler that knows the holder and holds only asset B,
\* within its single-side limit, while the pool ratio was out of range: the
\* tick failed on the ratio
C30_Witness ==
    /\ last.op = "Tick"
    /\ last.sender = CLOCK_ADDR
    /\ last.err = "PriceRangeError"
    /\ storage.holder_address.some
    /\ bal[DENOM_A] = 0
    /\ bal[DENOM_B] > 0
    /\ bal[DENOM_B] <= storage.lp_config.single_side_lp_limits.asset_b_limit
    /\ last.arg.pair_type = storage.lp_config.pair_type
    /\ RatioOutside(storage.lp_config.expected_pool_ratio_range, last.arg)

\* the step is a Tick by the clock on a pool of the configured pair type whose
\* ratio is within the expected range
TickInRange ==
    /\ last'.op = "Tick"
    /\ last'.sender = CLOCK_ADDR
    /\ last'.arg.pair_type = storage.lp_config.pair_type
    /\ ~decimal_from_ratio_panics(last'.arg.pool_token_a_bal, last'.arg.pool_token_b_bal)
    /\ is_within_range(storage.lp_config.expected_pool_ratio_range,
                       decimal_from_ratio(last'.arg.pool_token_a_bal, last'.arg.pool_token_b_bal))

\* C31: on a Tick with both balances ca, cb non-zero and the pool in range the
\* pooler provides (need_a, cb), need_a = floor(ratio * cb), when ca >= need_a
\* and (ca, floor((B/A) * ca)) otherwise; neither amount exceeds the balance
\* held, one balance is used in full, the message is funded with exactly the
\* two amounts, its receiver is the holder and auto_stake is false; the Tick
\* fails only if an amount overflows
C31_DoubleSidedProvision ==
    [][(TickInRange /\ bal[DENOM_A] # 0 /\ bal[DENOM_B] # 0)
          => LET ca == bal[DENOM_A]
                 cb == bal[DENOM_B]
                 A == last'.arg.pool_token_a_bal
                 B == last'.arg.pool_token_b_bal
                 need_a == (((A * ONE) \div B) * cb) \div ONE
                 a == IF ca >= need_a THEN need_a ELSE ca
                 b == IF ca >= need_a THEN cb ELSE (((B * ONE) \div A) * ca) \div ONE
             IN  /\ last'.err \in {"Ok", "Overflow"}
                 /\ last'.err = "Overflow" => (need_a > Uint128MAX \/ b > Uint128MAX
                        \/ storage.provided_liquidity_info.provided_amount_a + a > Uint128MAX
                        \/ storage.provided_liquidity_info.provided_amount_b + b > Uint128MAX)
                 /\ last'.err = "Ok"
                       => /\ Len(msgs') = 1
                          /\ msgs'[1].type = "provide_liquidity"
                          /\ msgs'[1].assets = <<a, b>>
                          /\ msgs'[1].coins = <<Coin(DENOM_A, a), Coin(DENOM_B, b)>>
                          /\ storage.holder_address.some
                          /\ msgs'[1].receiver = storage.holder_address.v
                          /\ msgs'[1].auto_stake = FALSE
                          /\ a <= ca /\ b <= cb
                          /\ a = ca \/ b = cb
                          /\ bal' = [bal EXCEPT ![DENOM_A] = ca - a, ![DENOM_B] = cb - b]]_vars

\* the step is a Tick in range that provides one asset alone: all the pooler
\* holds of it, added to the matching provided amount
SingleSided(d, amount) ==
    /\ last'.err = "Ok"
    /\ Len(msgs') = 1
    /\ msgs'[1].type = "provide_liquidity"
    /\ msgs'[1].coins = <<Coin(d, amount)>>
    /\ msgs'[1].assets = <<IF d = DENOM_A THEN amount ELSE 0, IF d = DENOM_B THEN amount ELSE 0>>
    /\ storage'.provided_liquidity_info =
          [provided_amount_a |-> storage.provided_liquidity_info.provided_amount_a
                                     + (IF d = DENOM_A THEN amount ELSE 0),
           provided_amount_b |-> storage.provided_liquidity_info.provided_amount_b
                                     + (IF d = DENOM_B THEN amount ELSE 0)]
    /\ bal' = [bal EXCEPT ![d] = 0]

\* the step is a Tick that succeeds, emits nothing and changes nothing
WaitsForFunds ==
    /\ last'.err = "Ok"
    /\ msgs' = <<>>
    /\ storage' = storage
    /\ bal' = bal

\* C32: on a Tick with exactly one non-zero balance and the pool in range the
\* pooler emits a single-sided ProvideLiquidity carrying the whole balance and
\* adds it to the matching provided amount if and only if the balance is at
\* most the single-side limit of that asset; when the balance exceeds the
\* limit, and when both balances are zero, the Tick succeeds without a message
\* and without a change of ProvidedLiquidityInfo
C32_SingleSidedWithinLimit ==
    [][TickInRange
          => LET ca == bal[DENOM_A]
                 cb == bal[DENOM_B]
                 limits == storage.lp_config.single_side_lp_limits
             IN  /\ (ca # 0 /\ cb = 0 /\ ca <= limits.asset_a_limit) => SingleSided(DENOM_A, ca)
                 /\ (ca = 0 /\ cb # 0 /\ cb <= limits.asset_b_limit) => SingleSided(DENOM_B, cb)
                 /\ (ca # 0 /\ cb = 0 /\ ca > limits.asset_a_limit) => WaitsForFunds
                 /\ (ca = 0 /\ cb # 0 /\ cb > limits.asset_b_limit) => WaitsForFunds
                 /\ (ca = 0 /\ cb = 0) => WaitsForFunds]_vars

\* the step is a Tick that provides both assets
DoubleSided ==
    /\ last'.op = "Tick"
    /\ last'.err = "Ok"
    /\ Len(msgs') = 1
    /\ msgs'[1].reply_id = "DOUBLE_SIDED_REPLY_ID"

\* what the step adds to the provided amount of each asset
ProvidedDelta ==
    <<storage'.provided_liquidity_info.provided_amount_a
          - storage.provided_liquidity_info.provided_amount_a,
      storage'.provided_liquidity_info.provided_amount_b
          - storage.provided_liquidity_info.provided_amount_b>>

\* C33 as stated: after a successful double-sided provision the two amounts
\* added satisfy a = floor((A/B) * b) or b = floor((B/A) * a) for the reserves
\* (A, B) queried in that tick
C33_Original ==
    [][DoubleSided
          => LET A == last'.arg.pool_token_a_bal
                 B == last'.arg.pool_token_b_bal
                 a == ProvidedDelta[1]
                 b == ProvidedDelta[2]
             IN  \/ a = (A * b) \div B
                 \/ A # 0 /\ b = (B * a) \div A]_vars

\* C33, amended: after a successful double-sided provision the two amounts
\* added are the amounts of the message and satisfy a = floor(r * b) with r the
\* ratio A/B rounded down to a Decimal, or b = floor(r' * a) with r' the ratio
\* B/A rounded down to a Decimal; the amount computed never exceeds what the
\* exact pool ratio gives and falls short of it by less than one token unit
\* plus the other amount times one unit of Decimal precision
C33_ProvidedRatioBound ==
    [][DoubleSided
          => LET A == last'.arg.pool_token_a_bal
                 B == last'.arg.pool_token_b_bal
                 a == ProvidedDelta[1]
                 b == ProvidedDelta[2]
             IN  /\ msgs'[1].assets = <<a, b>>
                 /\ \/ /\ a = (((A * ONE) \div B) * b) \div ONE
                       /\ a * B <= A * b
                       /\ A * b * ONE - a * B * ONE < B * ONE + b * B
                    \/ /\ A # 0
                       /\ b = (((B * ONE) \div A) * a) \div ONE
                       /\ b * A <= B * a
                       /\ B * a * ONE - b * A * ONE < A * ONE + a * A]_vars

\* a double-sided provision on a pool whose ratio is not a Decimal: the amount
\* of asset A provided is below floor((A/B) * b)
C33_Witness ==
    /\ last.op = "Tick"
    /\ last.err = "Ok"
    /\ Len(msgs) = 1
    /\ msgs[1].reply_id = "DOUBLE_SIDED_REPLY_ID"
    /\ msgs[1].assets[2] > 0
    /\ msgs[1].assets[1] < (last.arg.pool_token_a_bal * msgs[1].assets[2]) \div last.arg.pool_token_b_bal

\* the amount of denom d the messages of a step carry to the pool
Carried(ms, d) ==
    IF ms = <<>> \/ ms[1].type # "provide_liquidity" THEN 0 ELSE CoinsAmount(ms[1].coins, d)

\* C34: ProvidedLiquidityInfo starts at (0, 0); provided_a and provided_b never
\* decrease; after each step each equals the sum of the amounts of its asset
\* carried by the ProvideLiquidity messages emitted so far, which is what the
\* pool has received, and never exceeds Uint128::MAX; a tick that emits no
\* message leaves both unchanged; and a tick that fails on the overflowing
\* addition emits nothing and changes nothing
C34_ProvidedIsSumOfProvisions ==
    /\ storage.provided_liquidity_info = [provided_amount_a |-> 0, provided_amount_b |-> 0]
    /\ [](/\ storage.provided_liquidity_info.provided_amount_a = pool[DENOM_A]
          /\ storage.provided_liquidity_info.provided_amount_b = pool[DENOM_B]
          /\ pool[DENOM_A] <= Uint128MAX
          /\ pool[DENOM_B] <= Uint128MAX)
    /\ [][LET old == storage.provided_liquidity_info
              new == storage'.provided_liquidity_info
          IN  /\ new.provided_amount_a >= old.provided_amount_a
              /\ new.provided_amount_b >= old.provided_amount_b
              /\ new.provided_amount_a = old.provided_amount_a + Carried(msgs', DENOM_A)
              /\ new.provided_amount_b = old.provided_amount_b + Carried(msgs', DENOM_B)
              /\ msgs' = <<>> => new = old
              /\ last'.err = "Overflow" => (msgs' = <<>> /\ storage' = storage /\ bal' = bal)]_vars

\* a tick failed on the addition to a provided amount that was about to pass
\* Uint128::MAX
C34_Witness ==
    /\ last.op = "Tick"
    /\ last.err = "Overflow"
    /\ \/ storage.provided_liquidity_info.provided_amount_a + bal[DENOM_A] > Uint128MAX
       \/ storage.provided_liquidity_info.provided_amount_b + bal[DENOM_B] > Uint128MAX

\* C35: the holder's contract state becomes Ragequit only in a step whose
\* preceding state is Active, whatever the interleaving of Ragequit, Tick and
\* the pooler's Distribute
C35_RagequitOnlyFromActive ==
    [][(storage.contract_state # "Ragequit" /\ storage'.contract_state = "Ragequit")
          => storage.contract_state = "Active"]_vars

\* the holder is Complete, no party has an allocation left and no withdrawal
\* is in flight
ClaimFlowDone ==
    /\ storage.contract_state = "Complete"
    /\ storage.covenant_config.party_a.allocation = 0
    /\ storage.covenant_config.party_b.allocation = 0
    /\ storage.withdraw_state.kind = "None"

\* C36: from an Active holder whose lockup passes, with the clock ticking, the
\* pooler answering every withdraw request with Distribute and each party
\* claiming while it has an allocation, the holder eventually is Complete with
\* allocations (0, 0) and no WithdrawState, in Share and in Side mode
C36_ClaimFlowCompletes ==
    (storage.contract_state = "Active") ~> ClaimFlowDone

\* applying the ragequit penalty for the party to every persisted split works
PenaltyApplies(party, counterparty) ==
    apply_penalty(storage.denom_splits, storage.ragequit_config.penalty, party, counterparty).ok

\* C37: for every configuration instantiate accepts with ragequit enabled, the
\* penalty applies to every persisted split for either party, and the
\* Distribute that answers a ragequit withdrawal succeeds and clears the
\* WithdrawState
C37_RagequitDistributeSucceeds ==
    /\ [](storage.ragequit_config.enabled =>
            /\ PenaltyApplies(storage.covenant_config.party_a, storage.covenant_config.party_b)
            /\ PenaltyApplies(storage.covenant_config.party_b, storage.covenant_config.party_a))
    /\ [][(last'.op = "Distribute" /\ storage.withdraw_state.kind = "ProcessingRagequit")
             => (last'.err = "Ok" /\ storage'.withdraw_state.kind = "None")]_vars

\* the DenomSplits the holder's instantiation stores
InstantiatedSplits == {instantiate(msg, InitialBlock).st.denom_splits : msg \in InstantiateMsgs}

\* C38: no execute operation of the holder changes the persisted DenomSplits;
\* the splits adjusted by the penalty during a ragequit Distribute are not
\* saved, so every later operation finds the splits stored at instantiation
\* (the holder starts with them and no step changes them)
C38_DenomSplitsNeverModified ==
    /\ storage.denom_splits \in InstantiatedSplits
    /\ [][storage'.denom_splits = storage.denom_splits]_vars

\* a ragequit Distribute has paid out with the penalised splits
C38_Witness ==
    /\ last.op = "Distribute"
    /\ last.ws = "ProcessingRagequit"
    /\ last.err = "Ok"
    /\ \E i \in 1..Len(msgs) : msgs[i].type = "bank"
    /\ storage.denom_splits \in InstantiatedSplits

\* the messages ask the holder's clock to dequeue the holder
AsksDequeue(ms) == \E i \in 1..Len(ms) : ms[i] = DequeueMsg(storage.clock_address)

\* C39: a step in which the holder becomes Complete through Claim or
\* Distribute emits the clock's Dequeue; a step in which it becomes Complete
\* through the deposit deadline is a Tick of the Instantiated holder and emits
\* no Dequeue; a Claim accepted when no party has an allocation left completes
\* and emits the Dequeue; no Tick emits one, and a Tick of the Complete holder
\* sends every deposit that has arrived back
C39_DequeueOnlyOnClaimCompletion ==
    [][/\ (storage.contract_state # "Complete" /\ storage'.contract_state = "Complete")
            => \/ /\ last'.op \in {"Claim", "Distribute"}
                  /\ AsksDequeue(msgs')
               \/ /\ last'.op = "Tick"
                  /\ storage.contract_state = "Instantiated"
                  /\ is_expired(storage.deposit_deadline, block)
                  /\ msgs' = <<>>
       /\ (/\ last'.op = "Claim"
           /\ last'.err = "Ok"
           /\ storage.covenant_config.party_a.allocation = 0
           /\ storage.covenant_config.party_b.allocation = 0)
            => (storage'.contract_state = "Complete" /\ AsksDequeue(msgs'))
       /\ last'.op = "Tick" => ~AsksDequeue(msgs')
       /\ (last'.op = "Tick" /\ last'.sender = CLOCK_ADDR /\ storage.contract_state = "Complete")
            => /\ last'.err = "Ok"
               /\ bal'[DENOM_A] = 0
               /\ bal'[DENOM_B] = 0
               /\ BankOutTo(msgs', PARTY_A_ROUTER, DENOM_A) = bal[DENOM_A]
               /\ BankOutTo(msgs', PARTY_B_ROUTER, DENOM_B) = bal[DENOM_B]]_vars

\* the holder missed the deposit deadline, completed without a Dequeue, and a
\* later tick refunded a deposit that arrived late
C39_Witness ==
    /\ last.op = "Tick"
    /\ last.was = "Complete"
    /\ last.err = "Ok"
    /\ storage.covenant_config.party_a.allocation # 0
    /\ \E i \in 1..Len(msgs) : msgs[i].type = "bank"

\* the split is a valid two-party split of the parties' receivers
ValidTwoPartySplit(receivers) ==
    /\ Len(receivers) = 2
    /\ map_get(receivers, PARTY_A_ADDR).some
    /\ map_get(receivers, PARTY_B_ADDR).some
    /\ validate_shares(receivers)

\* C40: a remapping fails exactly when an old address of the list is not a
\* receiver of the split; otherwise each new address of the list carries the
\* share of the old address it replaces, and a valid two-party split remapped
\* with the parties' receiver-to-router pairs has two receivers whose shares
\* sum to one
C40_RemapKeepsShares ==
    last.op \in {"remap_receivers_to_routers", "remap_splits"} =>
        LET remaps == last.arg.remaps
            result == last.arg.result
        IN  /\ last.err # "Ok" <=> \E i \in 1..Len(remaps) : ~map_get(storage.receivers, remaps[i][1]).some
            /\ last.err = "Ok" =>
                 /\ \A i \in 1..Len(remaps) :
                        map_get(result, remaps[i][2]) = map_get(storage.receivers, remaps[i][1])
                 /\ (last.op = "remap_splits" /\ ValidTwoPartySplit(storage.receivers))
                        => (Len(result) = 2 /\ validate_shares(result))

====
